---- MODULE Spec2Model ----
(***************************************************************************)
(* otel-demo-resilience: the Graph Builder (scripts/deps_to_graph.py), the  *)
(* Reliability Simulator (scripts/resilience.py) and the Outcome           *)
(* Comparator (scripts/summarize_results.py) as state machines.            *)
(*                                                                         *)
(*   SpecBuild : one run of deps_to_graph.py on a raw edge set             *)
(*   SpecEval  : one trial evaluation (endpoint_success / bfs_ok) on a     *)
(*               given alive/dead state                                    *)
(*   SpecRun   : resilience.py main(): the Monte Carlo loop                *)
(*   SpecLoad  : resilience.load_targets on a parsed targets.json          *)
(*   SpecStat  : the statistics functions of summarize_results.py          *)
(*   SpecCmp   : summarize_results.py main()                               *)
(*   SpecNorm  : the two norm functions on one raw service name            *)
(***************************************************************************)
EXTENDS Integers, Sequences, FiniteSets, TLC

VARIABLES
    b_pc,        \* builder: "idle" | "ready" | "written" | "crashed"
    b_edges,     \* builder: `edges` after the normalisation loop (set of <<pu, pv>>)
    b_entry,     \* builder: `entry`, the normalised entrypoint names, in file order
    b_graph,     \* builder: the graph dumped to --out
    b_exit,      \* builder: process exit code (-1 while running)
    s_pc,        \* simulator: "idle" | "ready" | "evaluated"
    graph,       \* simulator: the parsed graph.json
    mode,        \* simulator: --mode, "all-block" | "async"
    endpoint_spec, \* simulator: the validated endpoint spec, or NoSpec (simple mode)
    targets_names, \* simulator: the normalised names read from the --targets file
    alive,       \* simulator: the alive vector of the current trial, 0-based
    trial_ok,    \* simulator: outcome of the current trial
    argv_seed,   \* run: the value of a --seed argument on the command line, or None
    p_fail,      \* run: --p, in units of 1/RandMax
    samples,     \* run: --samples
    replicas,    \* run: the replica table (service name -> count)
    trial_no,    \* run: trials completed
    successes,   \* run: successful trials so far
    draws,       \* run: the random.random() values of the current trial, per service
    result,      \* run: the JSON object written to --out
    prev_result, \* run: the object written by the previous run on the same inputs
    l_pc,        \* load_targets: "idle" | "ready" | "returned" | "raised"
    l_raw,       \* load_targets: the parsed targets.json, endpoint entries in file order
    l_out,       \* load_targets: the returned specs, in the same order
    st_pc,       \* statistics call: "idle" | "ready" | "returned"
    st_fn,       \* statistics call: the function called
    st_x,        \* statistics call: first series (bias_block of the rows)
    st_y,        \* statistics call: second series (bias_async of the rows)
    st_stats,    \* statistics call: bootstrap_ci's `stats` list so far
    st_out,      \* statistics call: the returned value, or the exception raised
    c_pc,        \* comparator: position in summarize_results.py main()
    c_targets_file, \* comparator: whether --targets-file is given
    c_block,     \* comparator: model_modeall-block_p{p}.json
    c_async,     \* comparator: model_modeasync_p{p}.json
    c_live,      \* comparator: the live window files, in sorted(glob) order
    c_values,    \* comparator: the series handed to the bootstrap_ci call in progress
    c_stats,     \* comparator: that call's `stats` list so far
    c_summary,   \* comparator: the object written to --overall-out
    c_eblock,    \* comparator: model_modeall-block_e{label}_p{p}_chunk{c}.json
    c_easync,    \* comparator: model_modeasync_e{label}_p{p}_chunk{c}.json
    c_rows,      \* comparator: collect_endpoint_rows of the endpoint
    c_esummary,  \* comparator: the endpoint's overall_..._e{label}.json
    n_pc,        \* names: "idle" | "raw" | "built" | "again" | "targets" | "done"
    n_obs,       \* names: a raw service name of an observation (a sequence of pieces)
    n_raw,       \* names: a raw name in the replica table, a targets file or a spec
    n_service,   \* names: the name the Graph Builder gives the observed service
    n_again,     \* names: the builder's norm applied to that name once more
    n_target,    \* names: whether the simulator finds n_raw among the graph's names
    n_replicas   \* names: the replica count the simulator uses for the service

bvars == <<b_pc, b_edges, b_entry, b_graph, b_exit>>

svars == <<s_pc, graph, mode, endpoint_spec, targets_names, alive, trial_ok>>

rvars == <<argv_seed, p_fail, samples, replicas, trial_no, successes, draws, result,
           prev_result>>

lvars == <<l_pc, l_raw, l_out>>

stvars == <<st_pc, st_fn, st_x, st_y, st_stats, st_out>>

cvars == <<c_pc, c_targets_file, c_block, c_async, c_live, c_values, c_stats, c_summary,
           c_eblock, c_easync, c_rows, c_esummary>>

nvars == <<n_pc, n_obs, n_raw, n_service, n_again, n_target, n_replicas>>

\* The variables of load_targets, of the statistics functions, of the comparator and
\* of the name normalisation.
ovars == <<lvars, stvars, cvars, nvars>>

vars == <<b_pc, b_edges, b_entry, b_graph, b_exit,
          s_pc, graph, mode, endpoint_spec, targets_names, alive, trial_ok,
          argv_seed, p_fail, samples, replicas, trial_no, successes, draws, result,
          prev_result,
          l_pc, l_raw, l_out,
          st_pc, st_fn, st_x, st_y, st_stats, st_out,
          c_pc, c_targets_file, c_block, c_async, c_live, c_values, c_stats, c_summary,
          c_eblock, c_easync, c_rows, c_esummary,
          n_pc, n_obs, n_raw, n_service, n_again, n_target, n_replicas>>

None == "None"

\* endpoint_spec when no --endpoint is given (Python's None): simple mode.
NoSpec == [entry |-> None, exclude_async |-> FALSE, rule |-> "none", targets |-> <<>>, k |-> 0]

(***************************************************************************)
(* Small helpers                                                           *)
(***************************************************************************)
Range(s) == {s[i] : i \in DOMAIN s}

RECURSIVE SetToSeq(_)
SetToSeq(S) ==
    IF S = {} THEN <<>>
    ELSE LET x == CHOOSE y \in S : TRUE IN <<x>> \o SetToSeq(S \ {x})

IndexOf(s, x) == CHOOSE i \in DOMAIN s : s[i] = x

\* The subsets of S with at most k elements.
RECURSIVE SubsetsUpTo(_, _)
SubsetsUpTo(S, k) ==
    IF k = 0 THEN {{}}
    ELSE LET P == SubsetsUpTo(S, k - 1) IN P \cup {p \cup {x} : p \in P, x \in S}

(***************************************************************************)
(* Graph Builder: scripts/deps_to_graph.py                                 *)
(***************************************************************************)

\* Bound: the number of distinct raw observations fed to one build.
MaxRawEdges == 4

\* The normalised names that occur in the observations, in sorted() order.
NameOrder == <<"cart", "frontend", "grafana", "jaeger", "kafka">>

Names == Range(NameOrder)

SKIP ==
    {"frontend-proxy", "jaeger", "grafana", "otel-collector", "zipkin",
     "prometheus", "loadgenerator", "load-generator"}

\* The entrypoint files offered to the builder (already normalised, line 33-37).
EntryFiles ==
    {<<>>, <<"frontend">>, <<"jaeger">>, <<"frontend", "jaeger">>}

\* Line 42-52: observations with pu = pv are dropped before `edges` is filled.
RawEdgeSets == SubsetsUpTo({e \in Names \X Names : e[1] # e[2]}, MaxRawEdges)

ENTRY_ALLOW == Range(b_entry)

nodes == {e[1] : e \in b_edges} \cup {e[2] : e \in b_edges}

skip_nodes_without_exemption == {n \in nodes : n \in SKIP}

skip_nodes == {n \in nodes : n \in SKIP /\ n \notin ENTRY_ALLOW}

adj(u) == {e[2] : e \in {x \in b_edges : x[1] = u}}

radj(v) == {e[1] : e \in {x \in b_edges : x[2] = v}}

\* expand_forward under functools.lru_cache: a result is cached only when the call
\* returns, so a call for a node that is still on the call stack (`active`) recurses
\* without bound and ends in RecursionError.  The value is [err, out].
RECURSIVE expand_forward_from(_, _)
expand_forward_from(node, active) ==
    LET sub(nxt) ==
            IF nxt \in skip_nodes
            THEN IF nxt \in active \cup {node}
                 THEN [err |-> TRUE, out |-> {}]
                 ELSE expand_forward_from(nxt, active \cup {node})
            ELSE [err |-> FALSE, out |-> {nxt}]
    IN [err |-> \E nxt \in adj(node) : sub(nxt).err,
        out |-> UNION {sub(nxt).out : nxt \in adj(node)}]

expand_forward(node) == expand_forward_from(node, {})

RECURSIVE expand_backward_from(_, _)
expand_backward_from(node, active) ==
    LET sub(prev) ==
            IF prev \in skip_nodes
            THEN IF prev \in active \cup {node}
                 THEN [err |-> TRUE, out |-> {}]
                 ELSE expand_backward_from(prev, active \cup {node})
            ELSE [err |-> FALSE, out |-> {prev}]
    IN [err |-> \E prev \in radj(node) : sub(prev).err,
        out |-> UNION {sub(prev).out : prev \in radj(node)}]

expand_backward(node) == expand_backward_from(node, {})

rewire_to_every_node(u, v) ==
    LET su == u \in skip_nodes
        sv == v \in skip_nodes
    IN  IF ~su /\ ~sv THEN [err |-> FALSE, out |-> {<<u, v>>}]
        ELSE IF ~su /\ sv
             THEN [err |-> expand_forward(v).err,
                   out |-> {<<u, t>> : t \in nodes \ skip_nodes}]
        ELSE IF su /\ ~sv
             THEN [err |-> expand_backward(u).err,
                   out |-> {<<s, v>> : s \in nodes \ skip_nodes}]
        ELSE [err |-> expand_backward(u).err \/ expand_forward(v).err,
              out |-> expand_backward(u).out \X expand_forward(v).out]

\* Line 91-113: what one raw edge contributes to `filtered`, and whether a closure
\* call it makes fails.
rewire(u, v) ==
    LET su == u \in skip_nodes
        sv == v \in skip_nodes
    IN  IF ~su /\ ~sv THEN [err |-> FALSE, out |-> {<<u, v>>}]
        ELSE IF ~su /\ sv
             THEN [err |-> expand_forward(v).err,
                   out |-> {<<u, t>> : t \in expand_forward(v).out}]
        ELSE IF su /\ ~sv
             THEN [err |-> expand_backward(u).err,
                   out |-> {<<s, v>> : s \in expand_backward(u).out}]
        ELSE [err |-> expand_backward(u).err \/ expand_forward(v).err,
              out |-> expand_backward(u).out \X expand_forward(v).out]

RecursionError == \E e \in b_edges : rewire(e[1], e[2]).err

\* Line 91-116.
filtered ==
    {e \in UNION {rewire(x[1], x[2]).out : x \in b_edges} :
        e[1] \notin skip_nodes /\ e[2] \notin skip_nodes}

\* Line 119: V = sorted() of the endpoints of the surviving edges F.
V_of(F) ==
    LET S == {e[1] : e \in F} \cup {e[2] : e \in F}
    IN SelectSeq(NameOrder, LAMBDA n : n \in S)

\* Line 120: idx, 0-based, over the service list Vs.
idx_of(Vs, name) == IndexOf(Vs, name) - 1

\* Line 123-124.
edge_set_of(F, Vs) == {<<idx_of(Vs, e[1]), idx_of(Vs, e[2])>> : e \in F}

async_edges_of_outgoing_only(E, Vs) ==
    IF "kafka" \in Range(Vs)
    THEN {e \in E : e[1] = idx_of(Vs, "kafka")}
    ELSE {}

\* Line 126-129.
async_edges_of(E, Vs) ==
    IF "kafka" \in Range(Vs)
    THEN {e \in E : e[1] = idx_of(Vs, "kafka") \/ e[2] = idx_of(Vs, "kafka")}
    ELSE {}

\* Line 132.
entry_ids_of(Vs) ==
    LET kept == SelectSeq(b_entry, LAMBDA e : e \in Range(Vs))
    IN [i \in DOMAIN kept |-> idx_of(Vs, kept[i])]

\* Line 134.
graph_of(F) ==
    LET Vs == V_of(F)
        E  == edge_set_of(F, Vs)
    IN [services |-> Vs, edges |-> E, entrypoints |-> entry_ids_of(Vs),
        async_edges |-> async_edges_of(E, Vs)]

NoGraph == [services |-> <<>>, edges |-> {}, entrypoints |-> <<>>, async_edges |-> {}]

NoResult == [written |-> FALSE]

NoReplicas == [name \in {} |-> 1]

NoModel == [loaded |-> FALSE]

NoSummary == [written |-> FALSE]

\* load_targets is not being called.
NormIdle ==
    /\ n_pc = "idle"
    /\ n_obs = <<>>
    /\ n_raw = <<>>
    /\ n_service = <<>>
    /\ n_again = <<>>
    /\ n_target = "pending"
    /\ n_replicas = 0

LoadIdle ==
    /\ l_pc = "idle"
    /\ l_raw = <<>>
    /\ l_out = <<>>

\* No statistics function is being called.
StatIdle ==
    /\ st_pc = "idle"
    /\ st_fn = "none"
    /\ st_x = <<>>
    /\ st_y = <<>>
    /\ st_stats = <<>>
    /\ st_out = [raised |-> FALSE]

\* The comparator is not running.
CmpIdle ==
    /\ c_pc = "idle"
    /\ c_targets_file = FALSE
    /\ c_block = NoModel
    /\ c_async = NoModel
    /\ c_live = <<>>
    /\ c_values = <<>>
    /\ c_stats = <<>>
    /\ c_summary = NoSummary
    /\ c_eblock = NoModel
    /\ c_easync = NoModel
    /\ c_rows = <<>>
    /\ c_esummary = NoSummary

\* No Monte Carlo run is in progress.
RunIdle ==
    /\ argv_seed = None
    /\ p_fail = 0
    /\ samples = 0
    /\ replicas = NoReplicas
    /\ trial_no = 0
    /\ successes = 0
    /\ draws = <<>>
    /\ result = NoResult
    /\ prev_result = NoResult

\* The simulator is not part of a builder run.
SimIdle ==
    /\ RunIdle
    /\ s_pc = "idle"
    /\ graph = NoGraph
    /\ mode = "all-block"
    /\ endpoint_spec = NoSpec
    /\ targets_names = <<>>
    /\ alive = <<>>
    /\ trial_ok = "pending"

BInit ==
    /\ SimIdle
    /\ LoadIdle /\ StatIdle /\ CmpIdle /\ NormIdle
    /\ b_pc = "ready"
    /\ b_edges \in RawEdgeSets
    /\ b_entry \in EntryFiles
    /\ b_graph = NoGraph
    /\ b_exit = -1

\* The run ends in an uncaught RecursionError: nothing is written.
BuildCrash ==
    /\ b_pc = "ready"
    /\ RecursionError
    /\ b_pc' = "crashed"
    /\ b_exit' = 1
    /\ UNCHANGED <<b_edges, b_entry, b_graph>>
    /\ UNCHANGED <<svars, rvars, ovars>>

\* Line 118-139: the graph is dumped, then the empty-graph check sets the exit code.
BuildWrite ==
    /\ b_pc = "ready"
    /\ ~RecursionError
    /\ b_graph' = graph_of(filtered)
    /\ b_exit' = IF b_graph'.edges = {} THEN 1 ELSE 0
    /\ b_pc' = "written"
    /\ UNCHANGED <<b_edges, b_entry>>
    /\ UNCHANGED <<svars, rvars, ovars>>

BNext == BuildCrash \/ BuildWrite

SpecBuild == BInit /\ [][BNext]_vars

(***************************************************************************)
(* Graph Builder: properties                                               *)
(***************************************************************************)

\* Transparent as the specification words it: on the denylist, not an entrypoint.
IsTransparent(n) == n \in SKIP /\ n \notin Range(b_entry)

Succ(u) == {v \in Names : <<u, v>> \in b_edges}

RECURSIVE TransparentClosure(_)
TransparentClosure(T) ==
    LET T2 == T \cup {t \in UNION {Succ(x) : x \in T} : IsTransparent(t)}
    IN IF T2 = T THEN T ELSE TransparentClosure(T2)

\* The nodes b with a raw path a -> t1 -> ... -> tk -> b, k >= 1, all ti transparent.
ThroughTransparent(a) ==
    UNION {Succ(t) : t \in TransparentClosure({t \in Succ(a) : IsTransparent(t)})}

InServices(n) == n \in Range(b_graph.services)

ServiceIndex(n) == IndexOf(b_graph.services, n) - 1

GraphHasEdge(a, b) ==
    /\ InServices(a)
    /\ InServices(b)
    /\ <<ServiceIndex(a), ServiceIndex(b)>> \in b_graph.edges

ConnectedThroughTransparent(a, b) ==
    /\ a # b
    /\ a \in nodes /\ ~IsTransparent(a)
    /\ b \in nodes /\ ~IsTransparent(b)
    /\ b \in ThroughTransparent(a)

\* C1: once the builder has run, every pair of distinct non-transparent nodes
\* joined by a raw path whose interior is transparent is joined by a direct edge
\* of the built graph, and no transparent node is a service of the built graph.
C1_PruningPreservesConnectivity ==
    b_pc # "ready" =>
        /\ \A a, b \in Names :
              ConnectedThroughTransparent(a, b) => b_pc = "written" /\ GraphHasEdge(a, b)
        /\ \A n \in Names : IsTransparent(n) => ~InServices(n)

\* C1 restricted to the runs that write a graph (those that do not end in
\* RecursionError): the direct edge is there and no transparent node is a service.
C1_WhenWritten ==
    b_pc = "written" =>
        /\ \A a, b \in Names : ConnectedThroughTransparent(a, b) => GraphHasEdge(a, b)
        /\ \A n \in Names : IsTransparent(n) => ~InServices(n)

C1_WhenWritten_Witness ==
    /\ b_pc = "written"
    /\ \E a, b \in Names :
          /\ ConnectedThroughTransparent(a, b)
          /\ <<a, b>> \notin b_edges
          /\ GraphHasEdge(a, b)

\* A denylisted name that the entrypoint file lists and that some observation names.
ExemptEntrypoint(n) == n \in nodes /\ n \in SKIP /\ n \in Range(b_entry)

ListedInEntrypoints(n) ==
    InServices(n) /\ ServiceIndex(n) \in Range(b_graph.entrypoints)

\* C2 (as claimed): once the builder has run, every denylisted name that occurs in
\* an observation and is listed as an entrypoint is a service of the built graph and
\* its index is listed in entrypoints.
C2_EntrypointExemption ==
    b_pc # "ready" =>
        \A n \in Names :
            ExemptEntrypoint(n) => b_pc = "written" /\ ListedInEntrypoints(n)

\* n has a raw edge to or from another non-transparent node, or reaches / is reached
\* from one through transparent nodes only.
LinkedToNonTransparent(n) ==
    \E m \in nodes :
        /\ m # n
        /\ ~IsTransparent(m)
        /\ \/ <<n, m>> \in b_edges
           \/ <<m, n>> \in b_edges
           \/ m \in ThroughTransparent(n)
           \/ n \in ThroughTransparent(m)

\* C2 (amended): in every graph the builder writes, a denylisted name listed as an
\* entrypoint is a service with its index in entrypoints exactly when it is linked
\* to another non-transparent node, directly or through transparent nodes only;
\* otherwise none of its edges survives and it is absent from the graph.
C2_ExemptionAmended ==
    b_pc = "written" =>
        \A n \in Names :
            ExemptEntrypoint(n) =>
                /\ LinkedToNonTransparent(n) => ListedInEntrypoints(n)
                /\ InServices(n) => LinkedToNonTransparent(n) \/ n \in ThroughTransparent(n)

C2_Witness ==
    /\ b_pc = "written"
    /\ \E n \in Names :
          /\ ExemptEntrypoint(n)
          /\ LinkedToNonTransparent(n)
          /\ ListedInEntrypoints(n)

(***************************************************************************)
(* Reliability Simulator: scripts/resilience.py                            *)
(***************************************************************************)

\* Python's bool, as the value a trial yields; "ValueError" is the raised error.
Bool(b) == IF b THEN "True" ELSE "False"

NoIdx == -1

Idx(g) == 0 .. Len(g.services) - 1

\* prepare_graph, line 134: name -> index (a later duplicate wins).  The service
\* names of the graphs considered are already in the simulator's normal form.
name_to_idx(g) ==
    [nm \in Range(g.services) |->
        (CHOOSE i \in DOMAIN g.services :
            /\ g.services[i] = nm
            /\ \A j \in DOMAIN g.services : g.services[j] = nm => j <= i) - 1]

\* prepare_graph, line 118-122: adjacency of the in-range edges.
adj_all(g) ==
    [u \in Idx(g) |->
        {e[2] : e \in {x \in g.edges : x[1] = u /\ x[1] \in Idx(g) /\ x[2] \in Idx(g)}}]

\* prepare_graph, line 123-133.
async_edge_set(g) == g.async_edges

\* bfs_reachable, line 160-174: the queue loop.  failed_idx / banned_edges that are
\* None or empty are the empty set here (the code tests their truthiness).
RECURSIVE bfs_loop(_, _, _, _, _)
bfs_loop(q, seen, adjacency, failed_idx, banned_edges) ==
    IF q = <<>> THEN seen
    ELSE LET u == Head(q)
         IN IF u \in failed_idx
            THEN bfs_loop(Tail(q), seen, adjacency, failed_idx, banned_edges)
            ELSE LET new == {v \in adjacency[u] :
                                /\ v \notin failed_idx
                                /\ <<u, v>> \notin banned_edges
                                /\ v \notin seen}
                 IN bfs_loop(Tail(q) \o SetToSeq(new), seen \cup new,
                             adjacency, failed_idx, banned_edges)

bfs_reachable_through_failed(entry_idx, adjacency, failed_idx, banned_edges) ==
    IF entry_idx \notin DOMAIN adjacency THEN {}
    ELSE bfs_loop(<<entry_idx>>, {entry_idx}, adjacency, {}, banned_edges)

\* bfs_reachable, line 149-174.
bfs_reachable(entry_idx, adjacency, failed_idx, banned_edges) ==
    IF entry_idx < 0 \/ entry_idx >= Cardinality(DOMAIN adjacency) THEN {}
    ELSE IF entry_idx \in failed_idx THEN {}
    ELSE bfs_loop(<<entry_idx>>, {entry_idx}, adjacency, failed_idx, banned_edges)

\* endpoint_success, line 206-221: the entry index, or NoIdx when none resolves.
resolve_entry(g, spec) ==
    LET n2i        == name_to_idx(g)
        entry_name == IF spec.entry # None THEN spec.entry ELSE "frontend"
        byName     == IF entry_name \in DOMAIN n2i THEN n2i[entry_name] ELSE NoIdx
        first      == IF g.entrypoints # <<>> THEN g.entrypoints[1] ELSE NoIdx
        byList     == IF byName # NoIdx THEN byName
                      ELSE IF g.entrypoints # <<>> /\ 0 <= first /\ first < Len(g.services)
                           THEN first ELSE NoIdx
    IN IF byList # NoIdx THEN byList
       ELSE IF "frontend" \in DOMAIN n2i THEN n2i["frontend"] ELSE NoIdx

\* endpoint_success, line 223-227.
failed_idx_of(g, failed_services) ==
    {name_to_idx(g)[name] : name \in failed_services \cap DOMAIN name_to_idx(g)}

\* endpoint_success, line 229.
exclude_async_of(spec, md) == md = "async" /\ spec.exclude_async

banned_edges_of_every_edge(g, spec, md) ==
    IF exclude_async_of(spec, md) THEN g.edges ELSE {}

\* endpoint_success, line 230.
banned_edges_of(g, spec, md) ==
    IF exclude_async_of(spec, md) THEN async_edge_set(g) ELSE {}

structural_required_with_failures(entry_idx, adjacency, failed_idx, banned_edges) ==
    bfs_reachable(entry_idx, adjacency, failed_idx, banned_edges)

\* endpoint_success, line 234: the structural reachable set ignores failed_idx.
structural_required(entry_idx, adjacency, failed_idx, banned_edges) ==
    bfs_reachable(entry_idx, adjacency, {}, banned_edges)

\* endpoint_success.targets_to_indices, line 236-243.
targets_to_indices(items, n2i) ==
    [err  |-> \E i \in DOMAIN items : items[i] \notin DOMAIN n2i,
     idxs |-> [i \in DOMAIN items |->
                 IF items[i] \in DOMAIN n2i THEN n2i[items[i]] ELSE NoIdx]]

\* endpoint_success.filter_structural, line 245-250; `active` is
\* "structural_required is not None".
filter_structural(node_ids, active, required_set) ==
    IF ~active THEN [required |-> node_ids, excluded |-> 0]
    ELSE LET required == SelectSeq(node_ids, LAMBDA node : node \in required_set)
         IN [required |-> required, excluded |-> Len(node_ids) - Len(required)]

Max(a, b) == IF a >= b THEN a ELSE b

Min(a, b) == IF a <= b THEN a ELSE b

Count(node_ids, S) == Cardinality({i \in DOMAIN node_ids : node_ids[i] \in S})

any_all_ignoring_empty(rule, node_ids, reachable) ==
    IF rule = "any_of"
    THEN Bool(\E i \in DOMAIN node_ids : node_ids[i] \in reachable)
    ELSE Bool(\A i \in DOMAIN node_ids : node_ids[i] \in reachable)

\* endpoint_success, line 256-260.
any_all(rule, node_ids, reachable) ==
    IF node_ids = <<>> THEN "True"
    ELSE IF rule = "any_of"
         THEN Bool(\E i \in DOMAIN node_ids : node_ids[i] \in reachable)
         ELSE Bool(\A i \in DOMAIN node_ids : node_ids[i] \in reachable)

k_of_n_unclamped(k, node_ids, excluded, reachable) ==
    LET required_k == Max(0, k - excluded)
    IN IF required_k <= 0 THEN "True"
       ELSE IF node_ids = <<>> THEN "False"
       ELSE Bool(Count(node_ids, reachable) >= required_k)

\* endpoint_success, line 265-271.
k_of_n(k, node_ids, excluded, reachable) ==
    LET required_k == Max(0, k - excluded)
    IN IF required_k <= 0 THEN "True"
       ELSE IF node_ids = <<>> THEN "False"
       ELSE Bool(Count(node_ids, reachable) >= Min(required_k, Len(node_ids)))

\* endpoint_success, line 229-255 / 263-264: the rule's targets as indices, after
\* filter_structural: [err, required, excluded].
remaining_targets(g, failed_services, spec, md) ==
    LET adjacency  == adj_all(g)
        entry_idx  == resolve_entry(g, spec)
        failed_idx == failed_idx_of(g, failed_services)
        active     == exclude_async_of(spec, md)
        banned     == banned_edges_of(g, spec, md)
        structural == IF active
                      THEN structural_required(entry_idx, adjacency, failed_idx, banned)
                      ELSE {}
        t          == targets_to_indices(spec.targets, name_to_idx(g))
        f          == filter_structural(t.idxs, active, structural)
    IN [err |-> t.err, required |-> f.required, excluded |-> f.excluded]

\* endpoint_success, line 231.
reachable_of(g, failed_services, spec, md) ==
    bfs_reachable(resolve_entry(g, spec), adj_all(g), failed_idx_of(g, failed_services),
                  banned_edges_of(g, spec, md))

\* endpoint_success, line 177-273.  A spec is [entry, exclude_async, rule, targets, k]:
\* `targets` holds the rule's list (normalized_spec["targets"] or ["items"]).
endpoint_success(g, failed_services, spec, md) ==
    LET reachable == reachable_of(g, failed_services, spec, md)
        f         == remaining_targets(g, failed_services, spec, md)
    IN  IF Len(g.services) = 0 THEN "False"
        ELSE IF resolve_entry(g, spec) = NoIdx THEN "ValueError"
        ELSE IF f.err THEN "ValueError"
        ELSE IF spec.rule \in {"any_of", "all_of"}
             THEN any_all(spec.rule, f.required, reachable)
        ELSE k_of_n(spec.k, f.required, f.excluded, reachable)

\* main, line 282.
entry_of(g) == SelectSeq(g.entrypoints, LAMBDA i : i < Len(g.services))

\* main, line 285-297: unknown names are left out.
targets_simple_of(g, names) ==
    {name_to_idx(g)[name] : name \in Range(names) \cap DOMAIN name_to_idx(g)}

adj_for_mode_inverted(g, md) ==
    [u \in Idx(g) |->
        IF md = "async"
        THEN {v \in adj_all(g)[u] : <<u, v>> \in async_edge_set(g)}
        ELSE adj_all(g)[u]]

\* main, line 299-306.
adj_for_mode(g, md) ==
    [u \in Idx(g) |->
        IF md = "async"
        THEN {v \in adj_all(g)[u] : <<u, v>> \notin async_edge_set(g)}
        ELSE adj_all(g)[u]]

sinks_of_union(g, md, targets_simple) ==
    [i \in Idx(g) |-> i \in targets_simple \/ adj_for_mode(g, md)[i] = {}]

\* main, line 307-309.
sinks_of(g, md, targets_simple) ==
    IF targets_simple # {}
    THEN [i \in Idx(g) |-> i \in targets_simple]
    ELSE [i \in Idx(g) |-> adj_for_mode(g, md)[i] = {}]

\* main.bfs_ok, line 324-333: the queue loop, returning at the first sink.
RECURSIVE bfs_ok_loop(_, _, _, _, _)
bfs_ok_loop(q, seen, al, sinks, adjm) ==
    IF q = <<>> THEN FALSE
    ELSE LET u == Head(q)
         IN IF sinks[u] THEN TRUE
            ELSE LET new == {v \in adjm[u] : al[v] /\ v \notin seen}
                 IN bfs_ok_loop(Tail(q) \o SetToSeq(new), seen \cup new, al, sinks, adjm)

bfs_ok_ignoring_dead_start(al, start, sinks, adjm) ==
    LET n  == Cardinality(DOMAIN al)
        s0 == IF start < 0 THEN n + start ELSE start
    IN IF start >= n THEN "False"
       ELSE IF start < -n THEN "IndexError"
       ELSE Bool(bfs_ok_loop(<<s0>>, {s0}, al, sinks, adjm))

\* main.bfs_ok, line 321-333.  A negative start indexes alive, sinks and
\* adj_for_mode from the end, as Python lists do; below -len(alive) it is an
\* IndexError.
bfs_ok(al, start, sinks, adjm) ==
    LET n  == Cardinality(DOMAIN al)
        s0 == IF start < 0 THEN n + start ELSE start
    IN IF start >= n THEN "False"
       ELSE IF start < -n THEN "IndexError"
       ELSE IF ~al[s0] THEN "False"
       ELSE Bool(bfs_ok_loop(<<s0>>, {s0}, al, sinks, adjm))

\* main, line 348: any(bfs_ok(alive, e) for e in entry), evaluated in list order
\* up to the first True.
any_bfs_ok(al, entry, sinks, adjm) ==
    LET r == [i \in DOMAIN entry |-> bfs_ok(al, entry[i], sinks, adjm)]
    IN IF \E i \in DOMAIN r :
             r[i] = "True" /\ \A j \in 1 .. i - 1 : r[j] = "False"
       THEN "True"
       ELSE IF \E i \in DOMAIN r : r[i] = "IndexError" THEN "IndexError"
       ELSE "False"

failed_of_inverted(g, al) == {g.services[i + 1] : i \in {j \in Idx(g) : al[j]}}

\* main, line 342.
failed_of(g, al) == {g.services[i + 1] : i \in {j \in Idx(g) : ~al[j]}}

\* main, line 340-348: the outcome of one trial on the alive vector al.
trial(g, md, spec, names, al) ==
    IF spec # NoSpec
    THEN endpoint_success(g, failed_of(g, al), spec, md)
    ELSE LET sinks == sinks_of(g, md, targets_simple_of(g, names))
             adjm  == adj_for_mode(g, md)
         IN any_bfs_ok(al, entry_of(g), sinks, adjm)

(***************************************************************************)
(* One trial evaluated on a given alive/dead state (as tests_targets.py    *)
(* calls endpoint_success, and as the trial loop's body does after draw).  *)
(***************************************************************************)

\* Bound: the number of edges of an enumerated graph.
MaxEdges == 3

\* Bound: the largest k of an enumerated k_of_n rule (the lists have up to 2 items).
MaxK == 3

Services3 == <<"accounting", "frontend", "kafka">>

\* async_edges as the Graph Builder flags them: the edges that touch kafka.
KafkaEdges(services, E) ==
    {e \in E : services[e[1] + 1] = "kafka" \/ services[e[2] + 1] = "kafka"}

Graph3(E, entrypoints) ==
    [services |-> Services3, edges |-> E, entrypoints |-> entrypoints,
     async_edges |-> KafkaEdges(Services3, E)]

EdgeSets3 == SubsetsUpTo({e \in (0 .. 2) \X (0 .. 2) : e[1] # e[2]}, MaxEdges)

\* build_sample_graph of tests_targets.py.
FixtureGraph ==
    [services |-> <<"frontend", "checkout", "kafka", "accounting", "fraud-detection",
                    "redis-cart">>,
     edges |-> {<<0, 1>>, <<1, 2>>, <<2, 3>>, <<2, 4>>, <<1, 5>>},
     entrypoints |-> <<0>>,
     async_edges |-> {<<1, 2>>, <<2, 3>>, <<2, 4>>}]

Rule(entry, rule, targets, k, exclude_async) ==
    [entry |-> entry, exclude_async |-> exclude_async, rule |-> rule,
     targets |-> targets, k |-> k]

\* load_specs of tests_targets.py, after load_targets.
SPEC_ANY == Rule("frontend", "any_of", <<"checkout">>, 0, FALSE)

SPEC_ALL == Rule("frontend", "all_of", <<"checkout", "redis-cart">>, 0, FALSE)

SPEC_KOFN ==
    Rule("frontend", "k_of_n", <<"accounting", "fraud-detection", "redis-cart">>, 2, FALSE)

SPEC_ASYNC ==
    Rule("frontend", "all_of", <<"checkout", "accounting", "fraud-detection">>, 0, TRUE)

SPEC_BLOCKING ==
    Rule("frontend", "all_of", <<"checkout", "accounting", "fraud-detection">>, 0, FALSE)

FixtureSpecs == {SPEC_ANY, SPEC_ALL, SPEC_KOFN, SPEC_ASYNC, SPEC_BLOCKING}

\* Target lists over Services3 with one or two items (order is immaterial to
\* every rule, so one order per multiset).
ItemLists ==
    {<<Services3[i]>> : i \in 1 .. 3}
        \cup {<<Services3[i], Services3[j]>> : i \in 1 .. 3, j \in 1 .. 3}

CanonicalItemLists ==
    {l \in ItemLists : Len(l) = 1 \/ IndexOf(Services3, l[1]) <= IndexOf(Services3, l[2])}

EndpointSpecs ==
    {Rule(e, r, t, 0, x) :
        e \in {None, "kafka"}, r \in {"any_of", "all_of"}, t \in CanonicalItemLists,
        x \in BOOLEAN}
    \cup
    {Rule(e, "k_of_n", t, k, x) :
        e \in {None, "kafka"}, t \in CanonicalItemLists, k \in 0 .. MaxK, x \in BOOLEAN}

Modes == {"all-block", "async"}

BuilderIdle ==
    /\ b_pc = "idle"
    /\ b_edges = {}
    /\ b_entry = <<>>
    /\ b_graph = NoGraph
    /\ b_exit = -1

\* The entrypoints lists of the graphs evaluated in simple mode: in range, and with
\* an index that is too large or negative.
EntrypointLists == {<<>>, <<1>>, <<0, 1>>, <<3>>, <<-1>>, <<1, -4>>}

\* Simple mode: no endpoint spec; entrypoints and an optional --targets file vary.
EInitSimple ==
    /\ \E E \in EdgeSets3, ep \in EntrypointLists : graph = Graph3(E, ep)
    /\ endpoint_spec = NoSpec
    /\ targets_names \in {<<>>, <<"accounting">>, <<"kafka">>, <<"ghost">>}

\* Endpoint-predicate mode on the enumerated graphs.
EInitEndpoint ==
    /\ \E E \in EdgeSets3 : graph = Graph3(E, <<1>>)
    /\ endpoint_spec \in EndpointSpecs
    /\ targets_names = <<>>

\* Endpoint-predicate mode on the test fixture.
EInitFixture ==
    /\ graph = FixtureGraph
    /\ endpoint_spec \in FixtureSpecs
    /\ targets_names = <<>>

\* A graph in which no service is named frontend.
ServicesNoFrontend == <<"accounting", "checkout", "kafka">>

\* The graphs on which the entry of an endpoint spec is resolved: with and without
\* a service frontend, with no entrypoint, a first entrypoint other than frontend,
\* or a first entrypoint that is no index of a service.
EntryGraphs ==
    {[services |-> sv, edges |-> E, entrypoints |-> ep, async_edges |-> KafkaEdges(sv, E)] :
        sv \in {Services3, ServicesNoFrontend},
        E \in {{}, {<<0, 2>>}, {<<1, 2>>, <<2, 0>>}},
        ep \in {<<>>, <<0>>, <<2, 0>>, <<3, 0>>}}

\* Endpoint-predicate mode: the spec's entry is absent, names a service, or names
\* no service of the graph.
EInitEntry ==
    /\ graph \in EntryGraphs
    /\ endpoint_spec \in
          {Rule(e, r, <<t>>, 1, FALSE) :
              e \in {None, "kafka", "ghost"}, r \in {"any_of", "k_of_n"},
              t \in {"accounting", "kafka"}}
    /\ targets_names = <<>>

EInit ==
    /\ BuilderIdle
    /\ RunIdle
    /\ LoadIdle /\ StatIdle /\ CmpIdle /\ NormIdle
    /\ s_pc = "ready"
    /\ mode \in Modes
    /\ alive = <<>>
    /\ trial_ok = "pending"
    /\ EInitSimple \/ EInitEndpoint \/ EInitFixture \/ EInitEntry

\* One trial on an alive vector supplied by the caller.
Evaluate ==
    /\ s_pc = "ready"
    /\ \E al \in [Idx(graph) -> BOOLEAN] :
          /\ alive' = al
          /\ trial_ok' = trial(graph, mode, endpoint_spec, targets_names, al)
    /\ s_pc' = "evaluated"
    /\ UNCHANGED <<graph, mode, endpoint_spec, targets_names>>
    /\ UNCHANGED bvars
    /\ UNCHANGED rvars
    /\ UNCHANGED ovars

ENext == Evaluate

SpecEval == EInit /\ [][ENext]_vars

(***************************************************************************)
(* resilience.py main(): the Monte Carlo run                               *)
(***************************************************************************)

\* Bound: random.random() yields k / RandMax for k in 0 .. RandMax - 1 (a float in
\* [0.0, 1.0): 0.0 is a possible value, 1.0 is not); --p is p_fail / RandMax.
RandMax == 3

\* Bound: the largest --samples of a run.
MaxSamples == 2

RandomValues == 0 .. RandMax - 1

draw_count_single(svc, reps) == 1

\* draw_alive, line 140-142: the number of replica draws of a service.
draw_count(svc, reps) ==
    Max(1, IF svc \in DOMAIN reps THEN reps[svc] ELSE 1)

\* The values random.random() can return during one call of draw_alive: for each
\* service index in I, one value per replica draw.
RECURSIVE DrawsOver(_, _, _)
DrawsOver(g, reps, I) ==
    IF I = {} THEN {[i \in {} |-> <<>>]}
    ELSE LET i == CHOOSE x \in I : TRUE
         IN {(i :> s) @@ f :
                s \in [1 .. draw_count(g.services[i + 1], reps) -> RandomValues],
                f \in DrawsOver(g, reps, I \ {i})}

DrawChoices(g, reps) == DrawsOver(g, reps, Idx(g))

draw_alive_needing_all(g, d, p) ==
    [i \in Idx(g) |-> Cardinality({j \in DOMAIN d[i] : d[i][j] > p}) = Len(d[i])]

\* draw_alive, line 137-146, on the random values d: a replica survives when
\* random.random() > p_fail.
draw_alive(g, d, p) ==
    [i \in Idx(g) |-> Cardinality({j \in DOMAIN d[i] : d[i][j] > p}) > 0]

Services2 == <<"accounting", "frontend">>

Graph2(E, entrypoints) ==
    [services |-> Services2, edges |-> E, entrypoints |-> entrypoints, async_edges |-> {}]

\* The runs modelled: a graph, a mode and an endpoint spec (or none).
RunConfig(g, md, spec, names) ==
    [graph |-> g, mode |-> md, spec |-> spec, targets |-> names]

RunConfigs ==
    {RunConfig(Graph2({<<1, 0>>}, <<1>>), "all-block", NoSpec, <<>>),
     RunConfig(Graph2({<<1, 0>>, <<0, 1>>}, <<1>>), "all-block", NoSpec, <<>>),
     RunConfig(Graph2({<<1, 0>>}, <<>>), "async", NoSpec, <<>>),
     RunConfig(Graph2({<<1, 0>>}, <<1>>), "async",
               Rule(None, "all_of", <<"accounting">>, 0, FALSE), <<>>),
     RunConfig(Graph3({<<1, 2>>, <<2, 0>>}, <<1>>), "async",
               Rule("frontend", "any_of", <<"accounting">>, 0, TRUE), <<>>),
     RunConfig(Graph2({<<1, 0>>}, <<1>>), "all-block", NoSpec, <<"ghost">>),
     RunConfig(Graph2({<<1, 0>>}, <<1>>), "all-block",
               Rule(None, "all_of", <<"ghost">>, 0, FALSE), <<>>)}

ReplicaTables == {NoReplicas, [name \in {"frontend"} |-> 2]}

\* parse_args, line 10-35: the options are --graph, --replicas, --p, --samples,
\* --out, --mode, --targets, --targets-file, --endpoint; there is no --seed.
RInit ==
    /\ BuilderIdle
    /\ LoadIdle /\ StatIdle /\ CmpIdle /\ NormIdle
    /\ s_pc = "start"
    /\ argv_seed \in {None, "7"}
    /\ \E c \in RunConfigs :
          /\ graph = c.graph
          /\ mode = c.mode
          /\ endpoint_spec = c.spec
          /\ targets_names = c.targets
    /\ p_fail \in 0 .. RandMax
    /\ samples \in 0 .. MaxSamples
    /\ replicas \in ReplicaTables
    /\ alive = <<>>
    /\ trial_ok = "pending"
    /\ trial_no = 0
    /\ successes = 0
    /\ draws = <<>>
    /\ result = NoResult
    /\ prev_result = NoResult

\* parse_args: argparse rejects the unknown --seed argument and exits.
RejectSeed ==
    /\ s_pc = "start"
    /\ argv_seed # None
    /\ s_pc' = "usage_error"
    /\ UNCHANGED <<graph, mode, endpoint_spec, targets_names, alive, trial_ok>>
    /\ UNCHANGED <<bvars, rvars, ovars>>

\* main, line 277-336: arguments parsed, graph prepared; the module-level random
\* generator is never seeded.
StartRun ==
    /\ s_pc = "start"
    /\ argv_seed = None
    /\ s_pc' = "loop"
    /\ UNCHANGED <<graph, mode, endpoint_spec, targets_names, alive, trial_ok>>
    /\ UNCHANGED <<bvars, rvars, ovars>>

\* main, line 339-349: one iteration of the trial loop.
Trial ==
    /\ s_pc = "loop"
    /\ trial_no < samples
    /\ \E d \in DrawChoices(graph, replicas) :
          /\ draws' = d
          /\ alive' = draw_alive(graph, d, p_fail)
    /\ trial_ok' = trial(graph, mode, endpoint_spec, targets_names, alive')
    /\ IF trial_ok' \notin {"True", "False"}
       THEN /\ s_pc' = "exit_error"
            /\ UNCHANGED <<trial_no, successes>>
       ELSE /\ s_pc' = "loop"
            /\ trial_no' = trial_no + 1
            /\ successes' = successes + (IF trial_ok' = "True" THEN 1 ELSE 0)
    /\ UNCHANGED <<graph, mode, endpoint_spec, targets_names>>
    /\ UNCHANGED <<argv_seed, p_fail, samples, replicas, result, prev_result>>
    /\ UNCHANGED <<bvars, ovars>>

\* main, line 351: successes / samples as the fraction <<numerator, denominator>>.
R_model_of(succ, n) == IF n # 0 THEN <<succ, n>> ELSE <<0, 1>>

\* main, line 351-370: the result object (GRAPH_SHA256 is not set).
Finish ==
    /\ s_pc = "loop"
    /\ trial_no = samples
    /\ result' = IF endpoint_spec # NoSpec
                 THEN [written |-> TRUE, R_model |-> R_model_of(successes, samples),
                       p_fail |-> p_fail, samples |-> samples, mode |-> mode,
                       endpoint |-> "endpoint"]
                 ELSE [written |-> TRUE, R_model |-> R_model_of(successes, samples),
                       p_fail |-> p_fail, samples |-> samples, mode |-> mode]
    /\ s_pc' = "done"
    /\ UNCHANGED <<graph, mode, endpoint_spec, targets_names, alive, trial_ok>>
    /\ UNCHANGED <<argv_seed, p_fail, samples, replicas, trial_no, successes, draws,
                   prev_result>>
    /\ UNCHANGED <<bvars, ovars>>

\* The same command line is run a second time.
RunAgain ==
    /\ s_pc = "done"
    /\ ~prev_result.written
    /\ prev_result' = result
    /\ result' = NoResult
    /\ s_pc' = "loop"
    /\ trial_no' = 0
    /\ successes' = 0
    /\ draws' = <<>>
    /\ alive' = <<>>
    /\ trial_ok' = "pending"
    /\ UNCHANGED <<graph, mode, endpoint_spec, targets_names>>
    /\ UNCHANGED <<argv_seed, p_fail, samples, replicas>>
    /\ UNCHANGED <<bvars, ovars>>

RNext == RejectSeed \/ StartRun \/ Trial \/ Finish \/ RunAgain

SpecRun == RInit /\ [][RNext]_vars

(***************************************************************************)
(* Trial evaluation: properties                                            *)
(***************************************************************************)

Evaluated == s_pc = "evaluated"

EndpointMode == endpoint_spec # NoSpec

Answered == trial_ok \in {"True", "False"}

\* The failed services of the evaluated trial, as indices.
FailedIdx == {i \in Idx(graph) : ~alive[i]}

RECURSIVE Closure(_, _, _)
Closure(S, failed, E) ==
    LET S2 == S \cup {v \in Idx(graph) \ failed : \E u \in S : <<u, v>> \in E}
    IN IF S2 = S THEN S ELSE Closure(S2, failed, E)

\* The nodes joined to `entry` by a path of edges of E through non-failed services
\* (none when the entry itself is failed or is no service).
ReachSet(entry, failed, E) ==
    IF entry \notin Idx(graph) \/ entry \in failed THEN {}
    ELSE Closure({entry}, failed, E)

EntryIdx == resolve_entry(graph, endpoint_spec)

AsyncExcluded == mode = "async" /\ endpoint_spec.exclude_async

TraversableEdges == IF AsyncExcluded THEN graph.edges \ graph.async_edges ELSE graph.edges

\* Reachable from the entry through non-failed services.
Reachable == ReachSet(EntryIdx, FailedIdx, TraversableEdges)

\* Reachable from the entry in the failure-free graph without the async-flagged edges.
StructurallyReachable == ReachSet(EntryIdx, {}, graph.edges \ graph.async_edges)

TargetIdx(i) == name_to_idx(graph)[endpoint_spec.targets[i]]

\* The positions of the declared targets that structural exclusion drops / keeps.
DroppedTargets ==
    {i \in DOMAIN endpoint_spec.targets :
        AsyncExcluded /\ TargetIdx(i) \notin StructurallyReachable}

RemainingTargets == DOMAIN endpoint_spec.targets \ DroppedTargets

RemainingReachable == {i \in RemainingTargets : TargetIdx(i) \in Reachable}

\* C3 (as claimed): an any_of rule succeeds iff at least one remaining (not
\* structurally excluded) target is reachable from the entry through non-failed
\* services.
C3_AnyOf ==
    Evaluated /\ Answered /\ endpoint_spec.rule = "any_of" =>
        (trial_ok = "True" <=> RemainingReachable # {})

\* C3 (amended): an any_of rule succeeds iff at least one remaining target is
\* reachable, or no target remains after structural exclusion.
C3_AnyOfAmended ==
    Evaluated /\ Answered /\ endpoint_spec.rule = "any_of" =>
        (trial_ok = "True" <=> RemainingReachable # {} \/ RemainingTargets = {})

C3_Witness ==
    /\ Evaluated
    /\ endpoint_spec.rule = "any_of"
    /\ RemainingTargets = {}
    /\ FailedIdx # {}
    /\ trial_ok = "True"

\* C4: an all_of rule succeeds iff every remaining (not structurally excluded)
\* target is reachable from the entry through non-failed services.
C4_AllOf ==
    Evaluated /\ Answered /\ endpoint_spec.rule = "all_of" =>
        (trial_ok = "True" <=> RemainingReachable = RemainingTargets)

\* The fixture's case: all_of(checkout, redis-cart) fails once redis-cart is failed.
C4_Witness ==
    /\ Evaluated
    /\ graph = FixtureGraph
    /\ endpoint_spec = SPEC_ALL
    /\ FailedIdx = {5}
    /\ trial_ok = "False"

AdjustedK == Max(0, endpoint_spec.k - Cardinality(DroppedTargets))

CodeDropped ==
    LET f == remaining_targets(graph, failed_of(graph, alive), endpoint_spec, mode)
    IN {i \in DOMAIN endpoint_spec.targets :
          Cardinality({j \in 1 .. i : endpoint_spec.targets[j] = endpoint_spec.targets[i]})
            > Cardinality({j \in DOMAIN f.required :
                             f.required[j] = TargetIdx(i)})}

FailedNames == failed_of(graph, alive)

\* C6: a declared target is dropped from the rule's requirement iff mode is async,
\* the spec sets exclude_async and the target is not reachable from the entry in the
\* failure-free graph without the async-flagged edges, whatever the failed set is
\* (so nothing is dropped in all-block mode or with exclude_async = false); on the
\* fixture, with accounting and fraud-detection failed in async mode, the all_of
\* spec succeeds with exclude_async = true and fails with exclude_async = false.
C6_StructuralExclusion ==
    Evaluated /\ EndpointMode /\ Answered =>
        /\ CodeDropped = DroppedTargets
        /\ Len(remaining_targets(graph, FailedNames, endpoint_spec, mode).required)
             = Cardinality(RemainingTargets)
        /\ remaining_targets(graph, FailedNames, endpoint_spec, mode).excluded
             = Cardinality(DroppedTargets)
        /\ (graph = FixtureGraph /\ mode = "async"
              /\ FailedNames = {"accounting", "fraud-detection"}) =>
                /\ endpoint_spec = SPEC_ASYNC => trial_ok = "True"
                /\ endpoint_spec = SPEC_BLOCKING => trial_ok = "False"

\* A trial in which a failed service is structurally reachable and a target is dropped.
C6_Witness ==
    /\ Evaluated
    /\ EndpointMode
    /\ Answered
    /\ DroppedTargets # {}
    /\ RemainingTargets # {}
    /\ FailedIdx \cap StructurallyReachable # {}

AliveVectors == [Idx(graph) -> BOOLEAN]

\* C8: if a trial succeeds with failed set F, it succeeds with every failed set
\* F' that is a subset of F (in simple mode and in endpoint-predicate mode).
C8_RevivalNeverBreaksSuccess ==
    Evaluated /\ trial_ok = "True" =>
        \A al \in AliveVectors :
            (\A i \in Idx(graph) : alive[i] => al[i]) =>
                trial(graph, mode, endpoint_spec, targets_names, al) = "True"

C8_Witness ==
    /\ Evaluated
    /\ EndpointMode
    /\ trial_ok = "True"
    /\ FailedIdx # {}
    /\ FailedIdx \cap StructurallyReachable # {}

OtherMode == IF mode = "async" THEN "all-block" ELSE "async"

TrialUnder(md) == trial(graph, md, endpoint_spec, targets_names, alive)

\* C9 (as claimed): on a graph with no async edges the trial outcome is the same
\* under mode all-block and under mode async.
C9_ModeEquivalence ==
    Evaluated /\ graph.async_edges = {} => TrialUnder("all-block") = TrialUnder("async")

\* Every declared target is reachable from the entry in the failure-free graph.
AllTargetsStructurallyReachable ==
    \A i \in DOMAIN endpoint_spec.targets :
        /\ endpoint_spec.targets[i] \in DOMAIN name_to_idx(graph)
        /\ TargetIdx(i) \in ReachSet(EntryIdx, {}, graph.edges)

\* C9 (amended): on a graph with no async edges the trial outcome is the same under
\* both modes in simple mode, and in endpoint-predicate mode whenever the spec does
\* not set exclude_async or every declared target is reachable from the entry in the
\* failure-free graph.
C9_ModeEquivalenceAmended ==
    (/\ Evaluated
     /\ graph.async_edges = {}
     /\ \/ ~EndpointMode
        \/ ~endpoint_spec.exclude_async
        \/ AllTargetsStructurallyReachable)
        => /\ TrialUnder("all-block") = TrialUnder("async")
           /\ trial_ok = TrialUnder(OtherMode)

C9_Witness ==
    /\ Evaluated
    /\ graph.async_edges = {}
    /\ graph.edges # {}
    /\ ~EndpointMode
    /\ mode = "async"
    /\ FailedIdx # {}
    /\ trial_ok = "True"

(***************************************************************************)
(* Monte Carlo run: properties                                             *)
(***************************************************************************)

TrialDrawn == draws # <<>>

AllAlive == \A i \in Idx(graph) : alive[i]

\* R_model == 1.0
RModelIsOne(r) == r.R_model[1] = r.R_model[2]

\* C7 (as claimed): with p = 0 and samples >= 1 every service is alive in every
\* trial, every trial succeeds, and R_model == 1.0.
C7_ZeroFailureAlwaysSucceeds ==
    p_fail = 0 /\ samples >= 1 =>
        /\ TrialDrawn => AllAlive /\ trial_ok = "True"
        /\ s_pc = "done" => RModelIsOne(result)

\* Simple mode as the specification words it: the effective edges, the sinks (or
\* the explicit targets), the usable entrypoints.
EffectiveEdges == IF mode = "async" THEN graph.edges \ graph.async_edges ELSE graph.edges

SimpleTargets == {i \in Idx(graph) : graph.services[i + 1] \in Range(targets_names)}

SinkSet ==
    IF SimpleTargets # {} THEN SimpleTargets
    ELSE {i \in Idx(graph) : ~\E e \in EffectiveEdges : e[1] = i}

\* The success criterion on the current alive vector, from reachability alone.
CriterionHolds ==
    IF ~EndpointMode
    THEN \E i \in DOMAIN graph.entrypoints :
            ReachSet(graph.entrypoints[i], FailedIdx, EffectiveEdges) \cap SinkSet # {}
    ELSE IF endpoint_spec.rule = "any_of"
         THEN RemainingReachable # {} \/ RemainingTargets = {}
    ELSE IF endpoint_spec.rule = "all_of"
         THEN RemainingReachable = RemainingTargets
    ELSE \/ AdjustedK <= 0
         \/ /\ RemainingTargets # {}
            /\ Cardinality(RemainingReachable)
                 >= Min(AdjustedK, Cardinality(RemainingTargets))

\* C7 (amended): with p = 0 and samples >= 1, a service is dead in a trial only if
\* every one of its replica draws returned exactly 0.0; a trial in which every
\* service is alive succeeds iff the failure-free graph meets the success criterion;
\* a finished run reports R_model = successes / samples, which is 1.0 only if every
\* trial succeeded.
C7_ZeroFailureAmended ==
    p_fail = 0 /\ samples >= 1 /\ TrialDrawn =>
        /\ \A i \in Idx(graph) : alive[i] <=> \E j \in DOMAIN draws[i] : draws[i][j] # 0
        /\ AllAlive /\ Answered => (trial_ok = "True" <=> CriterionHolds)
        /\ s_pc = "done" =>
              /\ result.R_model = <<successes, samples>>
              /\ RModelIsOne(result) => trial_ok = "True"

\* A finished run at p = 0 on a graph with no sink: every service alive in the
\* last trial, and R_model is 0.
C7_Witness ==
    /\ s_pc = "done"
    /\ p_fail = 0
    /\ samples = MaxSamples
    /\ AllAlive
    /\ ~CriterionHolds
    /\ result.R_model = <<0, samples>>

\* C10: the simulator accepts a seed, two runs on identical inputs and the same
\* seed report the same R_model, and the seed is recorded in the output.
C10_SeededRunsRepeat ==
    /\ argv_seed # None => s_pc # "usage_error"
    /\ s_pc = "done" /\ prev_result.written => result.R_model = prev_result.R_model
    /\ s_pc = "done" /\ argv_seed # None => "seed" \in DOMAIN result

\* C10, the repeatability part alone: two finished runs of the same command line
\* report the same R_model.
C10_RunsRepeat ==
    s_pc = "done" /\ prev_result.written => result.R_model = prev_result.R_model

(***************************************************************************)
(* Comparator statistics: scripts/summarize_results.py                     *)
(*                                                                         *)
(* Reliabilities and biases are exact multiples of 1/2 here: the integer v *)
(* stands for the float v / 2.  A quotient is the pair <<num, den>>.  Every *)
(* function yields a record: `raised` names the exception it ends in       *)
(* ("none" when it returns) and `available` is FALSE for a returned None.  *)
(***************************************************************************)

\* Bound: the number of live windows (rows) of one (p_fail, chunk) unit.
MaxWindows == 2

\* Bound: n_resamples of bootstrap_ci (10000 in the code).
NResamples == 2

Unavailable == [raised |-> "none", available |-> FALSE]

Raised(exc) == [raised |-> exc, available |-> FALSE]

RECURSIVE SumSeq(_)
SumSeq(s) == IF s = <<>> THEN 0 ELSE Head(s) + SumSeq(Tail(s))

Abs(v) == IF v < 0 THEN -v ELSE v

\* sorted() of a list of numbers.
Sorted(s) == SortSeq(s, LAMBDA a, b : a < b)

\* statistics.median of a non-empty list, as twice its value.
median2(s) ==
    LET t == Sorted(s)
        n == Len(s)
    IN IF n % 2 = 1 THEN 2 * t[(n + 1) \div 2] ELSE t[n \div 2] + t[n \div 2 + 1]

\* bootstrap_ci, line 45-49: the statistic of one resample, `sample` being the
\* rng.randrange(n) results (1-based here).  The mean sum(sample) / n is kept as
\* its numerator over the denominator n, the median as twice its value over 2.
resample_stat(values, sample, statistic) ==
    LET picked == [i \in DOMAIN sample |-> values[sample[i]]]
    IN IF statistic = "median" THEN median2(picked) ELSE SumSeq(picked)

stat_den(values, statistic) == IF statistic = "median" THEN 2 ELSE Len(values)

\* The rng.randrange(n) results of one resample of a series of n values.
Samples(values) == [DOMAIN values -> DOMAIN values]

\* bootstrap_ci, line 51: int((alpha / 2) * n_resamples), alpha = 0.05.
lower_idx == (25 * NResamples) \div 1000

\* bootstrap_ci, line 52: min(n_resamples - 1, int((1 - alpha / 2) * n_resamples)).
upper_idx ==
    LET u == (975 * NResamples) \div 1000
    IN IF NResamples - 1 <= u THEN NResamples - 1 ELSE u

\* bootstrap_ci, line 39-53, given the `stats` list the resampling loop built.
bootstrap_ci(values, stats, statistic) ==
    IF values = <<>> THEN Unavailable
    ELSE IF lower_idx + 1 \notin DOMAIN stats \/ upper_idx + 1 \notin DOMAIN stats
         THEN Raised("IndexError")
    ELSE [raised |-> "none", available |-> TRUE,
          low  |-> <<Sorted(stats)[lower_idx + 1], stat_den(values, statistic)>>,
          high |-> <<Sorted(stats)[upper_idx + 1], stat_den(values, statistic)>>]

\* zip(x, y): the paired prefix.
Zip(x, y) == [i \in 1 .. (IF Len(x) <= Len(y) THEN Len(x) ELSE Len(y)) |-> <<x[i], y[i]>>]

diffs_of_keeping_zeros(x, y) ==
    LET z == Zip(x, y)
    IN [i \in DOMAIN z |-> z[i][1] - z[i][2]]

\* wilcoxon_signed_rank, line 57-58.
diffs_of(x, y) ==
    LET z == Zip(x, y)
        d == [i \in DOMAIN z |-> z[i][1] - z[i][2]]
    IN SelectSeq(SelectSeq(d, LAMBDA v : v # 0), LAMBDA v : v # 0)

\* wilcoxon_signed_rank, line 62: sorted((abs(d), idx)), idx 0-based.
abs_with_idx(diffs) ==
    SortSeq([i \in DOMAIN diffs |-> <<Abs(diffs[i]), i - 1>>],
            LAMBDA a, b : a[1] < b[1] \/ (a[1] = b[1] /\ a[2] < b[2]))

\* wilcoxon_signed_rank, line 66-76: the ranking loop from position i (0-based);
\* ranks are kept doubled (rank = (i + 1 + j) / 2).
RECURSIVE rank_loop(_, _, _, _)
rank_loop(aw, i, ranks2, tie_counts) ==
    LET n == Len(aw)
    IN IF i >= n THEN [ranks2 |-> ranks2, tie_counts |-> tie_counts]
       ELSE LET j == CHOOSE e \in i + 1 .. n :
                        /\ \A m \in i .. e - 1 : aw[m + 1][1] = aw[i + 1][1]
                        /\ e < n => aw[e + 1][1] # aw[i + 1][1]
                group == {aw[m + 1][2] : m \in i .. j - 1}
                r2 == [k \in DOMAIN ranks2 |->
                          IF k - 1 \in group THEN i + 1 + j ELSE ranks2[k]]
            IN rank_loop(aw, j, r2,
                         IF j - i > 1 THEN Append(tie_counts, j - i) ELSE tie_counts)

\* wilcoxon_signed_rank, line 56-88.  The returned p-value erfc(|z| / sqrt 2),
\* z = (w - mean) / sqrt(var), is kept as the exact quantities that determine it:
\* w2 = 2 w, mean4 = 4 mean, var48 = 48 var.
wilcoxon_signed_rank(x, y) ==
    LET diffs == diffs_of(x, y)
        n     == Len(diffs)
        rk    == rank_loop(abs_with_idx(diffs), 0, [k \in 1 .. n |-> 0], <<>>)
        w_pos == SumSeq([k \in 1 .. n |-> IF diffs[k] > 0 THEN rk.ranks2[k] ELSE 0])
        w_neg == SumSeq([k \in 1 .. n |-> IF diffs[k] < 0 THEN rk.ranks2[k] ELSE 0])
        tie_term == SumSeq([t \in DOMAIN rk.tie_counts |->
                        rk.tie_counts[t] * (rk.tie_counts[t] * rk.tie_counts[t] - 1)])
        var48 == 2 * n * (n + 1) * (2 * n + 1) - tie_term
    IN IF n = 0 THEN Unavailable
       ELSE IF var48 <= 0 THEN Unavailable
       ELSE [raised |-> "none", available |-> TRUE,
             w2 |-> IF w_pos <= w_neg THEN w_pos ELSE w_neg,
             mean4 |-> n * (n + 1), var48 |-> var48]

cliffs_delta_unguarded(x, y) ==
    LET greater == Cardinality({p \in (DOMAIN x) \X (DOMAIN y) : x[p[1]] > y[p[2]]})
                   - Cardinality({p \in (DOMAIN x) \X (DOMAIN y) : x[p[1]] < y[p[2]]})
    IN IF Len(x) * Len(y) = 0 THEN Raised("ZeroDivisionError")
       ELSE [raised |-> "none", available |-> TRUE, value |-> <<greater, Len(x) * Len(y)>>]

compare_counting_ties(a, b) == IF a >= b THEN 1 ELSE -1

\* cliffs_delta, line 99-102: what one pair (a, b) adds to `greater`.
compare(a, b) == IF a > b THEN 1 ELSE IF a < b THEN -1 ELSE 0

\* cliffs_delta, line 96-102: the two nested loops, from the pair (x[i], y[j]) on.
RECURSIVE greater_loop(_, _, _, _, _)
greater_loop(x, y, i, j, greater) ==
    IF i > Len(x) THEN greater
    ELSE IF j > Len(y) THEN greater_loop(x, y, i + 1, 1, greater)
    ELSE greater_loop(x, y, i, j + 1, greater + compare(x[i], y[j]))

\* cliffs_delta, line 91-103.
cliffs_delta(x, y) ==
    IF x = <<>> \/ y = <<>> THEN Unavailable
    ELSE IF Len(x) * Len(y) = 0 THEN Raised("ZeroDivisionError")
    ELSE [raised |-> "none", available |-> TRUE,
          value |-> <<greater_loop(x, y, 1, 1, 0), Len(x) * Len(y)>>]

\* A row of collect_endpoint_rows, line 155-166 (the fields the summary reads).
Row(bias_block, bias_async) ==
    [bias_block |-> bias_block, bias_async |-> bias_async,
     delta |-> bias_async - bias_block]

bias_block_vals(rows) == [i \in DOMAIN rows |-> rows[i].bias_block]

bias_async_vals(rows) == [i \in DOMAIN rows |-> rows[i].bias_async]

delta_vals(rows) == [i \in DOMAIN rows |-> rows[i].delta]

\* sum(vals) / len(rows) if rows else 0.0
mean_or_zero(vals) == IF vals # <<>> THEN <<SumSeq(vals), Len(vals)>> ELSE <<0, 1>>

\* summarize_rows, line 170-204, given the `stats` list of its bootstrap_ci call.
summarize_rows(rows, stats, graph_hash, model_seed) ==
    LET ci == bootstrap_ci(delta_vals(rows), stats, "median")
        wx == IF rows # <<>>
              THEN wilcoxon_signed_rank(bias_block_vals(rows), bias_async_vals(rows))
              ELSE Unavailable
    IN IF ci.raised # "none" THEN Raised(ci.raised)
       ELSE IF wx.raised # "none" THEN Raised(wx.raised)
       ELSE [raised |-> "none", available |-> TRUE, written |-> TRUE,
             graph_hash |-> graph_hash,
             n_windows |-> Len(rows),
             mean_bias_all_block |-> mean_or_zero(bias_block_vals(rows)),
             mean_bias_async |-> mean_or_zero(bias_async_vals(rows)),
             delta_bias_mean |-> mean_or_zero(delta_vals(rows)),
             delta_bias_median |-> IF rows # <<>> THEN <<median2(delta_vals(rows)), 2>>
                                   ELSE <<0, 1>>,
             ci95_delta_bias |-> ci,
             wilcoxon_pvalue |-> wx,
             model_seed |-> model_seed]

(***************************************************************************)
(* The statistics functions called on their own                            *)
(***************************************************************************)

BiasValues == {0, 1, 2}

Series == UNION {[1 .. n -> BiasValues] : n \in 0 .. MaxWindows}

StatFns ==
    {"bootstrap_ci:mean", "bootstrap_ci:median", "wilcoxon_signed_rank", "cliffs_delta",
     "summarize_rows"}

\* The rows whose bias columns are st_x and st_y.
st_rows == [i \in DOMAIN st_x |-> Row(st_x[i], st_y[i])]

\* The series the call in progress resamples, and its statistic.
st_values == IF st_fn = "summarize_rows" THEN delta_vals(st_rows) ELSE st_x

st_statistic == IF st_fn = "bootstrap_ci:mean" THEN "mean" ELSE "median"

StInit ==
    /\ BuilderIdle /\ SimIdle /\ LoadIdle /\ CmpIdle /\ NormIdle
    /\ st_pc = "ready"
    /\ st_fn \in StatFns
    /\ st_x \in Series
    /\ st_y \in Series
    /\ st_fn \in {"bootstrap_ci:mean", "bootstrap_ci:median"} => st_y = <<>>
    /\ st_fn = "summarize_rows" => Len(st_y) = Len(st_x)
    /\ st_stats = <<>>
    /\ st_out = [raised |-> FALSE]

\* bootstrap_ci, line 44-49: one iteration of the resampling loop.
StResample ==
    /\ st_pc = "ready"
    /\ st_fn \in {"bootstrap_ci:mean", "bootstrap_ci:median", "summarize_rows"}
    /\ st_values # <<>>
    /\ Len(st_stats) < NResamples
    /\ \E sample \in Samples(st_values) :
          st_stats' = Append(st_stats, resample_stat(st_values, sample, st_statistic))
    /\ UNCHANGED <<st_pc, st_fn, st_x, st_y, st_out>>
    /\ UNCHANGED <<nvars, bvars, svars, rvars, lvars, cvars>>

StLoopDone == st_values = <<>> \/ Len(st_stats) = NResamples

CallBootstrapCi ==
    /\ st_pc = "ready"
    /\ st_fn \in {"bootstrap_ci:mean", "bootstrap_ci:median"}
    /\ StLoopDone
    /\ st_out' = bootstrap_ci(st_x, st_stats, st_statistic)
    /\ st_pc' = "returned"
    /\ UNCHANGED <<st_fn, st_x, st_y, st_stats>>
    /\ UNCHANGED <<nvars, bvars, svars, rvars, lvars, cvars>>

CallWilcoxon ==
    /\ st_pc = "ready"
    /\ st_fn = "wilcoxon_signed_rank"
    /\ st_out' = wilcoxon_signed_rank(st_x, st_y)
    /\ st_pc' = "returned"
    /\ UNCHANGED <<st_fn, st_x, st_y, st_stats>>
    /\ UNCHANGED <<nvars, bvars, svars, rvars, lvars, cvars>>

CallCliffsDelta ==
    /\ st_pc = "ready"
    /\ st_fn = "cliffs_delta"
    /\ st_out' = cliffs_delta(st_x, st_y)
    /\ st_pc' = "returned"
    /\ UNCHANGED <<st_fn, st_x, st_y, st_stats>>
    /\ UNCHANGED <<nvars, bvars, svars, rvars, lvars, cvars>>

CallSummarizeRows ==
    /\ st_pc = "ready"
    /\ st_fn = "summarize_rows"
    /\ StLoopDone
    /\ st_out' = summarize_rows(st_rows, st_stats, None, None)
    /\ st_pc' = "returned"
    /\ UNCHANGED <<st_fn, st_x, st_y, st_stats>>
    /\ UNCHANGED <<nvars, bvars, svars, rvars, lvars, cvars>>

StNext ==
    StResample \/ CallBootstrapCi \/ CallWilcoxon \/ CallCliffsDelta \/ CallSummarizeRows

SpecStat == StInit /\ [][StNext]_vars

(***************************************************************************)
(* Statistics: properties                                                  *)
(***************************************************************************)

Returned == st_pc = "returned"

AllZero(s) == \A i \in DOMAIN s : s[i] = 0

\* C19: bootstrap_ci on an empty series returns the unavailable pair;
\* wilcoxon_signed_rank returns None when all paired differences are zero (and
\* whenever its variance term is not positive); cliffs_delta returns None when
\* either series is empty; and no call of these functions, nor of summarize_rows
\* (the empty row list included), ends in an exception.
C19_DegeneracyIsAValue ==
    Returned =>
        /\ st_out.raised = "none"
        /\ st_fn \in {"bootstrap_ci:mean", "bootstrap_ci:median"} /\ st_x = <<>>
              => ~st_out.available
        /\ st_fn = "wilcoxon_signed_rank"
              /\ (\A i \in DOMAIN Zip(st_x, st_y) : st_x[i] = st_y[i])
              => ~st_out.available
        /\ st_fn = "wilcoxon_signed_rank" /\ st_out.available => st_out.var48 > 0
        /\ st_fn = "cliffs_delta" /\ (st_x = <<>> \/ st_y = <<>>) => ~st_out.available
        /\ st_fn = "summarize_rows" /\ st_x = <<>>
              => /\ ~st_out.ci95_delta_bias.available
                 /\ ~st_out.wilcoxon_pvalue.available
                 /\ st_out.n_windows = 0

C19_Witness ==
    /\ Returned
    /\ st_fn = "cliffs_delta"
    /\ st_x # <<>>
    /\ st_y = <<>>
    /\ st_out = Unavailable

(***************************************************************************)
(* Comparator: scripts/summarize_results.py main()                         *)
(***************************************************************************)

\* graph_hash values of a prediction file (None: the key is missing or empty).
Hashes == {None, "A", "B"}

\* "seed" values of the all-block prediction file (None: the key is missing).
Seeds == {None, "7"}

\* R_model and R_live values, in halves.
ModelValues == {1, 2}

LiveValues == {1, 2}

ModelFile(h, sd, r) == [loaded |-> TRUE, graph_hash |-> h, seed |-> sd, R_model |-> r]

LiveSeries == UNION {[1 .. n -> LiveValues] : n \in 0 .. MaxWindows}

\* per_endpoint[endpoint] of a live window file.
EndpointStats ==
    {[present |-> FALSE, total |-> 0, ok |-> 0],
     [present |-> TRUE, total |-> 0, ok |-> 0],
     [present |-> TRUE, total |-> 2, ok |-> 1]}

\* Python truthiness of a graph_hash value.
Truthy(h) == h # None

\* main, line 370: the two global predictions carry different fingerprints.
hash_mismatch(block, async) ==
    /\ Truthy(block.graph_hash)
    /\ Truthy(async.graph_hash)
    /\ block.graph_hash # async.graph_hash

\* main, line 372.
graph_hash_of(block, async) ==
    IF Truthy(block.graph_hash) THEN block.graph_hash ELSE async.graph_hash

\* main, line 384-385.
bias_windows(r_model, r_live_values) ==
    [i \in DOMAIN r_live_values |-> Abs(r_model - r_live_values[i])]

\* main, line 386.
delta_windows(bias_block_windows, bias_async_windows) ==
    [i \in DOMAIN Zip(bias_block_windows, bias_async_windows) |->
        bias_block_windows[i] - bias_async_windows[i]]

\* main, line 381-448: the summary object, given the `stats` list of bootstrap_ci.
summary_of(block, async, r_live_values, stats) ==
    LET windows == Len(r_live_values)
        bb == bias_windows(block.R_model, r_live_values)
        ba == bias_windows(async.R_model, r_live_values)
        dw == delta_windows(bb, ba)
    IN [written |-> TRUE,
        graph_hash |-> graph_hash_of(block, async),
        windows |-> windows,
        mean_R_live |-> <<SumSeq(r_live_values), windows>>,
        mean_bias_block |-> <<SumSeq(bb), windows>>,
        mean_bias_async |-> <<SumSeq(ba), windows>>,
        mean_delta_bias |-> <<SumSeq(bb) - SumSeq(ba), windows>>,
        share_delta_bias_positive |->
            <<Cardinality({i \in DOMAIN dw : dw[i] > 0}), windows>>,
        ci95_delta_bias |-> bootstrap_ci(dw, stats, "mean"),
        wilcoxon_pvalue |-> wilcoxon_signed_rank(bb, ba),
        cliffs_delta |-> cliffs_delta(bb, ba),
        model_seed |-> block.seed,
        R_model_all_block |-> block.R_model,
        R_model_async |-> async.R_model]

\* collect_endpoint_rows, line 135-167: `stats` holds per_endpoint[endpoint] of each
\* live record; ok / total is exact in halves for the totals considered.
collect_endpoint_rows(model_block, model_async, stats) ==
    LET kept == SelectSeq(stats, LAMBDA st : st.present /\ st.total > 0)
    IN [i \in DOMAIN kept |->
           Row(Abs(model_block - (2 * kept[i].ok) \div kept[i].total),
               Abs(model_async - (2 * kept[i].ok) \div kept[i].total))]

CInit ==
    /\ BuilderIdle /\ SimIdle /\ LoadIdle /\ StatIdle /\ NormIdle
    /\ c_pc = "start"
    /\ c_targets_file \in BOOLEAN
    /\ c_block = NoModel
    /\ c_async = NoModel
    /\ c_live = <<>>
    /\ c_values = <<>>
    /\ c_stats = <<>>
    /\ c_summary = NoSummary
    /\ c_eblock = NoModel
    /\ c_easync = NoModel
    /\ c_rows = <<>>
    /\ c_esummary = NoSummary

\* main, line 366-374: both global predictions are loaded and their fingerprints
\* compared.
LoadModels ==
    /\ c_pc = "start"
    /\ \E hb \in Hashes, ha \in Hashes, sd \in Seeds, rb \in ModelValues,
          ra \in ModelValues :
          /\ c_block' = ModelFile(hb, sd, rb)
          /\ c_async' = ModelFile(ha, None, ra)
    /\ c_pc' = IF hash_mismatch(c_block', c_async') THEN "SystemExit" ELSE "models"
    /\ UNCHANGED <<c_targets_file, c_live, c_values, c_stats, c_summary, c_eblock,
                   c_easync, c_rows, c_esummary>>
    /\ UNCHANGED <<nvars, bvars, svars, rvars, lvars, stvars>>

\* main, line 375-386 and read_live_values: the live windows are read; no matching
\* file is a FileNotFoundError.
ReadLive ==
    /\ c_pc = "models"
    /\ \E live \in LiveSeries :
          /\ c_live' = live
          /\ c_values' = delta_windows(bias_windows(c_block.R_model, live),
                                       bias_windows(c_async.R_model, live))
          /\ c_pc' = IF live = <<>> THEN "FileNotFoundError" ELSE "bootstrap"
    /\ UNCHANGED <<c_targets_file, c_block, c_async, c_stats, c_summary, c_eblock,
                   c_easync, c_rows, c_esummary>>
    /\ UNCHANGED <<nvars, bvars, svars, rvars, lvars, stvars>>

\* bootstrap_ci, line 44-49: one iteration of the resampling loop, for the overall
\* summary (mean) or for the endpoint summary (median).
Resample ==
    /\ c_pc \in {"bootstrap", "ebootstrap"}
    /\ c_values # <<>>
    /\ Len(c_stats) < NResamples
    /\ \E sample \in Samples(c_values) :
          c_stats' = Append(c_stats,
                            resample_stat(c_values, sample,
                                          IF c_pc = "bootstrap" THEN "mean" ELSE "median"))
    /\ UNCHANGED <<c_pc, c_targets_file, c_block, c_async, c_live, c_values, c_summary,
                   c_eblock, c_easync, c_rows, c_esummary>>
    /\ UNCHANGED <<nvars, bvars, svars, rvars, lvars, stvars>>

\* main, line 394-455: the overall summary is written.
WriteOverall ==
    /\ c_pc = "bootstrap"
    /\ Len(c_stats) = NResamples
    /\ c_summary' = summary_of(c_block, c_async, c_live, c_stats)
    /\ c_stats' = <<>>
    /\ c_values' = <<>>
    /\ c_pc' = IF c_targets_file THEN "endpoints" ELSE "done"
    /\ UNCHANGED <<c_targets_file, c_block, c_async, c_live, c_eblock, c_easync, c_rows,
                   c_esummary>>
    /\ UNCHANGED <<nvars, bvars, svars, rvars, lvars, stvars>>

\* main, line 458-476: the endpoint's two predictions are loaded (their graph_hash
\* is not read) and its rows collected from the live records.
LoadEndpoint ==
    /\ c_pc = "endpoints"
    /\ \E hb \in Hashes \ {None}, ha \in Hashes \ {None}, rb \in ModelValues,
          ra \in ModelValues, stats \in [DOMAIN c_live -> EndpointStats] :
          /\ c_eblock' = ModelFile(hb, None, rb)
          /\ c_easync' = ModelFile(ha, None, ra)
          /\ c_rows' = collect_endpoint_rows(rb, ra, stats)
    /\ c_values' = delta_vals(c_rows')
    /\ c_stats' = <<>>
    /\ c_pc' = "ebootstrap"
    /\ UNCHANGED <<c_targets_file, c_block, c_async, c_live, c_summary, c_esummary>>
    /\ UNCHANGED <<nvars, bvars, svars, rvars, lvars, stvars>>

\* main, line 477-487: summarize_rows and write_endpoint_reports for the endpoint.
WriteEndpoint ==
    /\ c_pc = "ebootstrap"
    /\ c_values = <<>> \/ Len(c_stats) = NResamples
    /\ c_esummary' = summarize_rows(c_rows, c_stats, c_summary.graph_hash,
                                    c_summary.model_seed)
    /\ c_pc' = "done"
    /\ UNCHANGED <<c_targets_file, c_block, c_async, c_live, c_values, c_stats, c_summary,
                   c_eblock, c_easync, c_rows>>
    /\ UNCHANGED <<nvars, bvars, svars, rvars, lvars, stvars>>

CNext ==
    LoadModels \/ ReadLive \/ Resample \/ WriteOverall \/ LoadEndpoint \/ WriteEndpoint

SpecCmp == CInit /\ [][CNext]_vars

(***************************************************************************)
(* Comparator: properties                                                  *)
(***************************************************************************)

\* The live series and both global predictions all equal the constant c.
ConstantRoundTrip(c) ==
    /\ c_block.R_model = c
    /\ c_async.R_model = c
    /\ \A i \in DOMAIN c_live : c_live[i] = c

\* C11: when the overall summary is written for a non-empty live series equal to a
\* constant c with both predictions equal to c, every per-window bias and delta is
\* 0, both mean biases are 0, the bootstrap interval is (0, 0) whatever the seed
\* and the resamples drawn, and the signed-rank test returns None.
C11_ComparatorRoundTrip ==
    c_summary.written /\ (\E c \in LiveValues : ConstantRoundTrip(c)) =>
        /\ AllZero(bias_windows(c_block.R_model, c_live))
        /\ AllZero(bias_windows(c_async.R_model, c_live))
        /\ AllZero(delta_windows(bias_windows(c_block.R_model, c_live),
                                 bias_windows(c_async.R_model, c_live)))
        /\ c_summary.mean_bias_block[1] = 0
        /\ c_summary.mean_bias_async[1] = 0
        /\ c_summary.mean_delta_bias[1] = 0
        /\ c_summary.ci95_delta_bias.available
        /\ c_summary.ci95_delta_bias.low[1] = 0
        /\ c_summary.ci95_delta_bias.high[1] = 0
        /\ c_summary.wilcoxon_pvalue = Unavailable

C11_Witness ==
    /\ c_summary.written
    /\ ConstantRoundTrip(1)
    /\ Len(c_live) = MaxWindows
    /\ c_summary.model_seed = "7"
    /\ c_summary.ci95_delta_bias.available
    /\ c_summary.wilcoxon_pvalue = Unavailable

\* The prediction files loaded so far.
LoadedPredictions == {m \in {c_block, c_async, c_eblock, c_easync} : m.loaded}

DifferentFingerprints(a, b) ==
    /\ Truthy(a.graph_hash)
    /\ Truthy(b.graph_hash)
    /\ a.graph_hash # b.graph_hash

\* C12: whenever two of the predictions the comparator has loaded for the unit
\* (global or endpoint-scoped) carry different graph fingerprints, the comparator
\* has aborted with SystemExit.
C12_FingerprintMismatchIsFatal ==
    (\E a, b \in LoadedPredictions : DifferentFingerprints(a, b)) => c_pc = "SystemExit"

\* The check the code does make: a mismatch between the two global predictions
\* aborts before any report is written.
C12_GlobalMismatchIsFatal ==
    c_block.loaded /\ c_async.loaded /\ DifferentFingerprints(c_block, c_async) =>
        /\ c_pc = "SystemExit"
        /\ ~c_summary.written
        /\ ~c_esummary.written

(***************************************************************************)
(* Graph Builder: properties of the exit status and of the written graph   *)
(***************************************************************************)

\* a -> b is an edge the pruning rules leave: distinct non-transparent nodes joined
\* by an observation or by a raw path whose interior is transparent.
SurvivingPair(a, b) ==
    /\ a # b
    /\ a \in nodes /\ ~IsTransparent(a)
    /\ b \in nodes /\ ~IsTransparent(b)
    /\ <<a, b>> \in b_edges \/ b \in ThroughTransparent(a)

\* The final edge set is empty: the written one, or, for a run that wrote nothing,
\* the one the pruning rules define.
FinalEdgeSetEmpty ==
    IF b_pc = "written" THEN b_graph.edges = {}
    ELSE ~\E a, b \in Names : SurvivingPair(a, b)

\* C13: a finished build has a non-zero exit status exactly when the final edge
\* set is empty, and a build with a surviving edge has written the graph and
\* exited with status 0.
C13_EmptyGraphIsFatal ==
    b_pc # "ready" =>
        /\ b_exit # 0 <=> FinalEdgeSetEmpty
        /\ ~FinalEdgeSetEmpty => b_pc = "written" /\ b_exit = 0

\* C13 restricted to the runs that reach the write (no RecursionError).
C13_WhenWritten ==
    b_pc = "written" => (b_exit # 0 <=> b_graph.edges = {})

\* C17: the written graph has no edge (i, i).
C17_NoSelfLoops ==
    b_pc = "written" => \A e \in b_graph.edges : e[1] # e[2]

\* Position of a name in sorted() order.
NamePos(n) == IndexOf(NameOrder, n)

ValidIndex(i) == i \in 0 .. Len(b_graph.services) - 1

\* C18: the written graph has its services strictly sorted by name, every index
\* of edges, async_edges and entrypoints within 0 .. |services| - 1, no edge
\* endpoint that is a transparent node, and async_edges equal to the edges that
\* have kafka as an endpoint (hence a subset of edges).
C18_GraphWellFormed ==
    b_pc = "written" =>
        /\ \A i, j \in DOMAIN b_graph.services :
              i < j => NamePos(b_graph.services[i]) < NamePos(b_graph.services[j])
        /\ \A e \in b_graph.edges \cup b_graph.async_edges :
              ValidIndex(e[1]) /\ ValidIndex(e[2])
        /\ \A i \in DOMAIN b_graph.entrypoints : ValidIndex(b_graph.entrypoints[i])
        /\ \A e \in b_graph.edges :
              /\ ~IsTransparent(b_graph.services[e[1] + 1])
              /\ ~IsTransparent(b_graph.services[e[2] + 1])
        /\ b_graph.async_edges =
              {e \in b_graph.edges :
                  "kafka" \in {b_graph.services[e[1] + 1], b_graph.services[e[2] + 1]}}
        /\ b_graph.async_edges \subseteq b_graph.edges

C18_Witness ==
    /\ b_pc = "written"
    /\ \E a \in Names : ConnectedThroughTransparent(a, "kafka") /\ GraphHasEdge(a, "kafka")
    /\ \E b \in Names : GraphHasEdge("kafka", b)
    /\ Cardinality(b_graph.async_edges) >= 2
    /\ b_graph.async_edges # b_graph.edges
    /\ b_graph.entrypoints # <<>>

\* The observations hold a cycle made of transparent nodes only.
TransparentCycle ==
    \E t \in nodes :
        /\ IsTransparent(t)
        /\ t \in TransparentClosure({u \in Succ(t) : IsTransparent(u)})

\* C20: no build ends inside the closure computation: every finished build has
\* returned from expand_forward / expand_backward and written its graph, also
\* when transparent nodes form a cycle.
C20_ClosureTerminates ==
    b_pc # "ready" => b_pc = "written"

\* The builds that do not finish are exactly those with a transparent cycle.
C20_CrashIffTransparentCycle ==
    b_pc # "ready" => (b_pc = "crashed" <=> TransparentCycle)

(***************************************************************************)
(* resilience.py load_targets                                              *)
(*                                                                         *)
(* A JSON value under a rule key is [kind, items]: kind "absent" (no such  *)
(* key), "list" (a list, its items as strings) or "other" (null, a number, *)
(* a string, an object).  A k_of_n block is [kind, k, items] with kind     *)
(* "absent" | "object" | "other"; its k is [kind, val] with kind "absent", *)
(* "int" (int() converts it to val) or "bad" (int() raises).               *)
(***************************************************************************)

Absent == [kind |-> "absent", items |-> <<>>]

Other == [kind |-> "other", items |-> <<>>]

List(items) == [kind |-> "list", items |-> items]

KBlock(kind, k, items) == [kind |-> kind, k |-> k, items |-> items]

KInt(v) == [kind |-> "int", val |-> v]

\* norm, line 38-39: strip, lower-case, '_' -> '-' (on the names that occur).
norm(name) ==
    CASE name = "Kafka" -> "kafka"
      [] name = " Redis_Cart" -> "redis-cart"
      [] name = "Front_End" -> "front-end"
      [] OTHER -> name

RawEntry(is_object, entry, any_of, all_of, block) ==
    [is_object |-> is_object, entry |-> entry, exclude_async |-> entry # None,
     any_of |-> any_of, all_of |-> all_of, k_of_n |-> block]

KBlocks ==
    {KBlock("absent", [kind |-> "absent", val |-> 0], Absent),
     KBlock("other", [kind |-> "absent", val |-> 0], Absent)}
    \cup {KBlock("object", k, items) :
            k \in {[kind |-> "absent", val |-> 0], [kind |-> "bad", val |-> 0], KInt(2)},
            items \in {Absent, List(<<>>), List(<<"Kafka", "frontend">>)}}

RawEntries ==
    {RawEntry(FALSE, None, Absent, Absent, KBlock("absent", [kind |-> "absent", val |-> 0],
                                                  Absent))}
    \cup {RawEntry(TRUE, e, a, b, k) :
            e \in {None, "Front_End"},
            a \in {Absent, Other, List(<<>>), List(<<"Kafka">>)},
            b \in {Absent, List(<<>>), List(<<"frontend", " Redis_Cart">>)},
            k \in KBlocks}

\* One well-formed entry per rule.
GoodEntries ==
    {RawEntry(TRUE, None, List(<<"Kafka">>), Absent,
              KBlock("absent", [kind |-> "absent", val |-> 0], Absent))}
    \cup {RawEntry(TRUE, None, Absent, Absent,
                   KBlock("object", KInt(2), List(<<"Kafka", "frontend">>)))}

\* The targets maps handed to load_targets: endpoint entries in file order.
TargetsMaps ==
    {<<>>} \cup {<<e>> : e \in RawEntries}
           \cup {<<g, e>> : g \in GoodEntries, e \in RawEntries}

\* load_targets, line 73.
rule_fields(spec) ==
    SelectSeq(<<"any_of", "all_of", "k_of_n">>,
              LAMBDA key : CASE key = "any_of" -> spec.any_of.kind # "absent"
                             [] key = "all_of" -> spec.all_of.kind # "absent"
                             [] OTHER -> spec.k_of_n.kind # "absent")

normalized(items) == [i \in DOMAIN items |-> norm(items[i])]

NoRule == Rule(None, "none", <<>>, 0, FALSE)

load_entry_first_rule_wins(spec) ==
    LET entry  == IF spec.entry # None THEN norm(spec.entry) ELSE None
        fields == rule_fields(spec)
        rule   == fields[1]
        values == IF rule = "any_of" THEN spec.any_of ELSE spec.all_of
        block  == spec.k_of_n
    IN IF ~spec.is_object THEN [raised |-> "ValueError", spec |-> NoRule]
       ELSE IF Len(fields) = 0 THEN [raised |-> "ValueError", spec |-> NoRule]
       ELSE IF rule \in {"any_of", "all_of"}
            THEN IF values.kind # "list" \/ values.items = <<>>
                 THEN [raised |-> "ValueError", spec |-> NoRule]
                 ELSE [raised |-> "none",
                       spec |-> Rule(entry, rule, normalized(values.items), 0,
                                     spec.exclude_async)]
       ELSE IF block.kind # "object" THEN [raised |-> "ValueError", spec |-> NoRule]
       ELSE IF block.k.kind = "bad" THEN [raised |-> "ValueError", spec |-> NoRule]
       ELSE IF block.items.kind # "list" \/ block.items.items = <<>>
            THEN [raised |-> "ValueError", spec |-> NoRule]
       ELSE [raised |-> "none",
             spec |-> Rule(entry, rule, normalized(block.items.items),
                           IF block.k.kind = "int" THEN block.k.val ELSE 0,
                           spec.exclude_async)]

\* load_targets, line 66-98: the loop body for one endpoint entry.
load_entry(spec) ==
    LET entry  == IF spec.entry # None THEN norm(spec.entry) ELSE None
        fields == rule_fields(spec)
        rule   == fields[1]
        values == IF rule = "any_of" THEN spec.any_of ELSE spec.all_of
        block  == spec.k_of_n
    IN IF ~spec.is_object THEN [raised |-> "ValueError", spec |-> NoRule]
       ELSE IF Len(fields) # 1 THEN [raised |-> "ValueError", spec |-> NoRule]
       ELSE IF rule \in {"any_of", "all_of"}
            THEN IF values.kind # "list" \/ values.items = <<>>
                 THEN [raised |-> "ValueError", spec |-> NoRule]
                 ELSE [raised |-> "none",
                       spec |-> Rule(entry, rule, normalized(values.items), 0,
                                     spec.exclude_async)]
       ELSE IF block.kind # "object" THEN [raised |-> "ValueError", spec |-> NoRule]
       ELSE IF block.k.kind = "bad" THEN [raised |-> "ValueError", spec |-> NoRule]
       ELSE IF block.items.kind # "list" \/ block.items.items = <<>>
            THEN [raised |-> "ValueError", spec |-> NoRule]
       ELSE [raised |-> "none",
             spec |-> Rule(entry, rule, normalized(block.items.items),
                           IF block.k.kind = "int" THEN block.k.val ELSE 0,
                           spec.exclude_async)]

\* load_targets, line 47-99: the entries are handled in order; the first
\* malformed one raises.
load_targets(raw) ==
    LET loaded == [i \in DOMAIN raw |-> load_entry(raw[i])]
    IN IF \E i \in DOMAIN raw : loaded[i].raised # "none"
       THEN [raised |-> "ValueError", specs |-> <<>>]
       ELSE [raised |-> "none", specs |-> [i \in DOMAIN raw |-> loaded[i].spec]]

LInit ==
    /\ BuilderIdle /\ SimIdle /\ StatIdle /\ CmpIdle /\ NormIdle
    /\ l_pc = "ready"
    /\ l_raw \in TargetsMaps
    /\ l_out = <<>>

LoadTargets ==
    /\ l_pc = "ready"
    /\ l_out' = load_targets(l_raw).specs
    /\ l_pc' = IF load_targets(l_raw).raised = "none" THEN "returned" ELSE "raised"
    /\ UNCHANGED l_raw
    /\ UNCHANGED <<nvars, bvars, svars, rvars, stvars, cvars>>

LNext == LoadTargets

SpecLoad == LInit /\ [][LNext]_vars

(***************************************************************************)
(* load_targets: properties                                                *)
(***************************************************************************)

\* The rule keys an entry declares.
Declared(e) ==
    {key \in {"any_of", "all_of", "k_of_n"} :
        CASE key = "any_of" -> e.any_of.kind # "absent"
          [] key = "all_of" -> e.all_of.kind # "absent"
          [] OTHER -> e.k_of_n.kind # "absent"}

\* The target list of the declared rule key.
TargetList(e, key) ==
    CASE key = "any_of" -> e.any_of
      [] key = "all_of" -> e.all_of
      [] OTHER -> e.k_of_n.items

\* Malformed as the claim lists it: zero or several rule keys, or a target list
\* that is empty or not a list.
MalformedRule(e) ==
    \/ Cardinality(Declared(e)) # 1
    \/ \E key \in Declared(e) :
          TargetList(e, key).kind # "list" \/ TargetList(e, key).items = <<>>

\* A k that int() cannot convert.
BadK(e) == Declared(e) = {"k_of_n"} /\ e.k_of_n.kind = "object" /\ e.k_of_n.k.kind = "bad"

LoadFinished == l_pc \in {"returned", "raised"}

\* Every returned spec carries exactly the one declared rule and its non-empty,
\* normalised target list.
ValidatedSpecs ==
    /\ Len(l_out) = Len(l_raw)
    /\ \A i \in DOMAIN l_raw :
          /\ Declared(l_raw[i]) = {l_out[i].rule}
          /\ l_out[i].targets = normalized(TargetList(l_raw[i], l_out[i].rule).items)
          /\ l_out[i].targets # <<>>

\* C14 (as claimed): load_targets raises exactly when some entry declares zero or
\* several rule keys or has an empty or non-list target list, and otherwise
\* returns one validated spec with exactly one rule per entry.
C14_MalformedRuleIsFatal ==
    LoadFinished =>
        /\ l_pc = "raised" <=> \E i \in DOMAIN l_raw : MalformedRule(l_raw[i])
        /\ l_pc = "returned" => ValidatedSpecs

\* C14 (amended): as claimed, with a k_of_n.k that int() cannot convert as one more
\* cause of the error.
C14_MalformedRuleAmended ==
    LoadFinished =>
        /\ l_pc = "raised" <=>
              \E i \in DOMAIN l_raw : MalformedRule(l_raw[i]) \/ BadK(l_raw[i])
        /\ l_pc = "returned" => ValidatedSpecs

C14_Witness ==
    /\ l_pc = "raised"
    /\ Len(l_raw) = 2
    /\ ~MalformedRule(l_raw[1])
    /\ Cardinality(Declared(l_raw[2])) = 2
    /\ \A key \in Declared(l_raw[2]) :
          TargetList(l_raw[2], key).kind = "list" /\ TargetList(l_raw[2], key).items # <<>>

(***************************************************************************)
(* Simulator: properties of its configuration errors                       *)
(***************************************************************************)

\* A name of the --targets file, or of the endpoint spec's rule, names no service.
UnknownTargetName ==
    \/ \E i \in DOMAIN targets_names : targets_names[i] \notin Range(graph.services)
    \/ EndpointMode
          /\ \E i \in DOMAIN endpoint_spec.targets :
                endpoint_spec.targets[i] \notin Range(graph.services)

\* C15: a run given an unknown target name never evaluates a trial to an outcome
\* and never writes a result: it aborts, whatever --samples and the alive state.
C15_UnknownTargetIsFatal ==
    UnknownTargetName =>
        /\ trial_ok \notin {"True", "False"}
        /\ s_pc # "done"
        /\ ~result.written

\* What the code does in endpoint mode once a trial is evaluated: the unknown name
\* raises ValueError and the run exits without a result.
C15_EndpointTrialAborts ==
    UnknownTargetName /\ EndpointMode /\ trial_no < samples /\ draws # <<>> =>
        /\ s_pc = "exit_error"
        /\ trial_ok = "ValueError"
        /\ ~result.written

\* The entrypoints list holds an index that is no service index.
OutOfRangeEntrypoint ==
    \E i \in DOMAIN graph.entrypoints : graph.entrypoints[i] \notin Idx(graph)

\* C16: an evaluation on a graph whose entrypoints list holds an out-of-range
\* index (too large or negative) never yields an outcome: it aborts.
C16_EntryIndexOutOfRangeIsFatal ==
    Evaluated /\ OutOfRangeEntrypoint => ~Answered

(***************************************************************************)
(* Trial evaluation: the simple-mode criterion and the entry service       *)
(***************************************************************************)

\* The nodes with no outgoing effective edge.
NaturalSinks == {i \in Idx(graph) : ~\E e \in EffectiveEdges : e[1] = i}

\* The services whose alive state the reachability query starts from.
EntryServices ==
    IF EndpointMode THEN {EntryIdx} \cap Idx(graph)
    ELSE LET n == Len(graph.services)
         IN {IF e < 0 THEN n + e ELSE e : e \in Range(entry_of(graph))} \cap Idx(graph)

SomeEntrypointReaches(S) ==
    \E i \in DOMAIN graph.entrypoints :
        ReachSet(graph.entrypoints[i], FailedIdx, EffectiveEdges) \cap S # {}

\* C21 (as claimed): in simple mode a trial succeeds iff some entrypoint has a path
\* of alive nodes in the effective adjacency ending at a sink or, when a target set
\* was supplied, at a sink or at a node of the target set.
C21_SimpleModeCriterion ==
    Evaluated /\ ~EndpointMode =>
        (trial_ok = "True" <=> SomeEntrypointReaches(NaturalSinks \cup SimpleTargets))

\* C21 (amended): in simple mode a trial that yields an outcome succeeds iff some
\* entry node (an entrypoint below len(services), a negative one counted from the
\* end of the services list) has a path of alive nodes in the effective adjacency
\* ending at a node of the supplied target set when that set names at least one
\* service of the graph (a sink outside the set does not count), and at a sink
\* otherwise; with every entry node dead the trial fails, and one alive entry node
\* with such a path suffices.
C21_SimpleModeAmended ==
    Evaluated /\ ~EndpointMode /\ Answered =>
        /\ trial_ok = "True" <=>
              \E e \in EntryServices :
                  ReachSet(e, FailedIdx, EffectiveEdges)
                    \cap (IF SimpleTargets # {} THEN SimpleTargets ELSE NaturalSinks) # {}
        /\ EntryServices \subseteq FailedIdx => trial_ok = "False"

\* A trial with a target set, two entrypoints of which one is dead, and a path of
\* alive nodes to a sink that is no target: the trial fails.
C21_Witness ==
    /\ Evaluated
    /\ ~EndpointMode
    /\ Len(graph.entrypoints) = 2
    /\ \E i \in DOMAIN graph.entrypoints : graph.entrypoints[i] \in FailedIdx
    /\ SimpleTargets # {}
    /\ SomeEntrypointReaches(NaturalSinks)
    /\ trial_ok = "False"

EntryDead == EntryServices \subseteq FailedIdx

\* The rule asks for nothing: no target remains after structural exclusion, or the
\* adjusted k is 0.
TriviallySatisfied ==
    IF endpoint_spec.rule = "k_of_n" THEN AdjustedK <= 0 ELSE RemainingTargets = {}

\* C22 (as claimed): in simple mode and in endpoint-predicate mode, a trial whose
\* entry service is dead (every entrypoint in simple mode, the resolved entry in
\* endpoint mode) is a failure.
C22_DeadEntryNeverSucceeds ==
    Evaluated /\ EntryDead => trial_ok = "False"

\* C22 (amended): a trial that yields an outcome with the entry service dead fails
\* in simple mode; in endpoint-predicate mode it fails unless the rule is trivially
\* satisfied (any_of / all_of with no target left after structural exclusion,
\* k_of_n with adjusted k = 0), in which case it succeeds.
C22_DeadEntryAmended ==
    Evaluated /\ Answered /\ EntryDead =>
        IF EndpointMode THEN (trial_ok = "True" <=> TriviallySatisfied)
        ELSE trial_ok = "False"

C22_Witness ==
    /\ Evaluated
    /\ EndpointMode
    /\ EntryIdx \in FailedIdx
    /\ endpoint_spec.rule = "k_of_n"
    /\ endpoint_spec.k = 0
    /\ ~AsyncExcluded
    /\ trial_ok = "True"

\* The simple-mode case: an alive path from a dead entrypoint's successors is no use.
C22_SimpleWitness ==
    /\ Evaluated
    /\ ~EndpointMode
    /\ EntryServices # {}
    /\ EntryDead
    /\ EntryServices \cap SinkSet # {}
    /\ trial_ok = "False"

\* The entry index in the order the claim gives: the spec's entry name when given
\* and present, else the first declared entrypoint, else frontend, else none.
ClaimedEntry ==
    LET n2i == name_to_idx(graph)
    IN IF endpoint_spec.entry # None /\ endpoint_spec.entry \in DOMAIN n2i
       THEN n2i[endpoint_spec.entry]
       ELSE IF graph.entrypoints # <<>> /\ graph.entrypoints[1] \in Idx(graph)
            THEN graph.entrypoints[1]
       ELSE IF "frontend" \in DOMAIN n2i THEN n2i["frontend"]
       ELSE NoIdx

\* C23: in endpoint-predicate mode the entry node is the spec's explicit entry name
\* when given and present in the graph, otherwise the first declared entrypoint,
\* otherwise frontend; the trial is evaluated from that node, and it is an error
\* iff none resolves.
C23_EntryResolutionOrder ==
    Evaluated /\ EndpointMode =>
        /\ EntryIdx = ClaimedEntry
        /\ trial_ok = "ValueError" <=> ClaimedEntry = NoIdx

\* C23, the part that holds: the order is as claimed whenever the spec names an
\* entry or the graph has no service frontend.
C23_OrderWithoutDefaultName ==
    (/\ Evaluated
     /\ EndpointMode
     /\ endpoint_spec.entry # None \/ "frontend" \notin Range(graph.services))
        => /\ EntryIdx = ClaimedEntry
           /\ trial_ok = "ValueError" <=> ClaimedEntry = NoIdx

(***************************************************************************)
(* Comparator: the sign of delta                                           *)
(***************************************************************************)

\* Both analyses of the unit are reported: the overall one and the endpoint's.
BothAnalysesReported == c_pc = "done" /\ c_targets_file /\ c_esummary.available

\* sum over the windows of |R_model_block - x_i| and of |R_model_async - x_i|.
OverallBiasSum(m) == SumSeq([i \in DOMAIN c_live |-> Abs(m.R_model - c_live[i])])

EndpointBlockSum == SumSeq(bias_block_vals(c_rows))

EndpointAsyncSum == SumSeq(bias_async_vals(c_rows))

\* The mean deltas reported under the convention delta = sign * (bias_block -
\* bias_async), sign being 1 or -1.
MeanDeltasUnder(sign) ==
    /\ c_summary.mean_delta_bias
         = <<sign * (OverallBiasSum(c_block) - OverallBiasSum(c_async)), Len(c_live)>>
    /\ c_esummary.delta_bias_mean
         = IF c_rows = <<>> THEN <<0, 1>>
           ELSE <<sign * (EndpointBlockSum - EndpointAsyncSum), Len(c_rows)>>

\* C24: bias_mode(i) = |R_model_mode - x_i| and delta(i) = bias_A(i) - bias_B(i)
\* with the same assignment of modes to A and B in the overall and in the
\* per-endpoint analysis, the reported mean delta being the mean of the per-window
\* deltas.
C24_DeltaConventionIsUniform ==
    BothAnalysesReported => MeanDeltasUnder(1) \/ MeanDeltasUnder(-1)

\* C24, the part that holds: each analysis reports the mean of its own per-window
\* deltas, the overall one as bias_block - bias_async and the per-endpoint one as
\* bias_async - bias_block.
C24_EachAnalysisOnItsOwn ==
    BothAnalysesReported =>
        /\ c_summary.mean_delta_bias
             = <<OverallBiasSum(c_block) - OverallBiasSum(c_async), Len(c_live)>>
        /\ c_esummary.delta_bias_mean
             = IF c_rows = <<>> THEN <<0, 1>>
               ELSE <<EndpointAsyncSum - EndpointBlockSum, Len(c_rows)>>
        /\ \A i \in DOMAIN c_rows :
              c_rows[i].delta = c_rows[i].bias_async - c_rows[i].bias_block

(***************************************************************************)
(* Monte Carlo run: the replica draws                                      *)
(***************************************************************************)

\* The replica count of service i: the table's, or 1 for a service it does not list.
ReplicaCount(i) ==
    IF graph.services[i + 1] \in DOMAIN replicas THEN replicas[graph.services[i + 1]]
    ELSE 1

MaxNameLen == 3

\* Bound: the number of pieces of a raw name in a replica table or a targets file.
MaxRefLen == 2

Pieces == {"cart", "Cart", "_", "-", " ", "service"}

RawNames == UNION {[1 .. n -> Pieces] : n \in 1 .. MaxNameLen}

RefNames == UNION {[1 .. n -> Pieces] : n \in 1 .. MaxRefLen}

\* str.strip()
RECURSIVE strip(_)
strip(s) ==
    IF s = <<>> THEN s
    ELSE IF Head(s) = " " THEN strip(Tail(s))
    ELSE IF s[Len(s)] = " " THEN strip(SubSeq(s, 1, Len(s) - 1))
    ELSE s

\* str.lower()
lower(s) == [i \in DOMAIN s |-> IF s[i] = "Cart" THEN "cart" ELSE s[i]]

\* str.replace("_", "-")
replace(s) == [i \in DOMAIN s |-> IF s[i] = "_" THEN "-" ELSE s[i]]

\* str.endswith(suf)
endswith(s, suf) ==
    Len(s) >= Len(suf) /\ SubSeq(s, Len(s) - Len(suf) + 1, Len(s)) = suf

\* deps_to_graph.norm, line 28-30: one pass of the loop over the suffixes.
chop(s, suf) == IF endswith(s, suf) THEN SubSeq(s, 1, Len(s) - Len(suf)) ELSE s

\* deps_to_graph.norm, line 26-31.
deps_to_graph_norm(s) ==
    chop(chop(replace(lower(strip(s))), <<"-", "service">>), <<"service">>)

\* resilience.norm, line 38-39.
resilience_norm(s) == replace(lower(strip(s)))

NInit ==
    /\ BuilderIdle /\ SimIdle /\ LoadIdle /\ StatIdle /\ CmpIdle
    /\ n_pc = "raw"
    /\ n_obs \in RawNames
    /\ n_raw \in RefNames
    /\ n_service = <<>>
    /\ n_again = <<>>
    /\ n_target = "pending"
    /\ n_replicas = 0

\* deps_to_graph.py, line 48 and 119: the observed service enters the graph's
\* services list under its normalised name.
BuildName ==
    /\ n_pc = "raw"
    /\ n_service' = deps_to_graph_norm(n_obs)
    /\ n_pc' = "built"
    /\ UNCHANGED <<n_obs, n_raw, n_again, n_target, n_replicas>>
    /\ UNCHANGED <<bvars, svars, rvars, lvars, stvars, cvars>>

\* The builder's norm applied to a name of the services list.
NormAgain ==
    /\ n_pc = "built"
    /\ n_again' = deps_to_graph_norm(n_service)
    /\ n_pc' = "again"
    /\ UNCHANGED <<n_obs, n_raw, n_service, n_target, n_replicas>>
    /\ UNCHANGED <<bvars, svars, rvars, lvars, stvars, cvars>>

\* resilience.py, line 134 and 291-295 (84, 97 and 239 for an endpoint spec): the
\* raw name is looked up, after resilience.norm, among the resilience.norm of the
\* graph's service names.
ResolveTarget ==
    /\ n_pc = "again"
    /\ n_target' = Bool(resilience_norm(n_raw) = resilience_norm(n_service))
    /\ n_pc' = "targets"
    /\ UNCHANGED <<n_obs, n_raw, n_service, n_again, n_replicas>>
    /\ UNCHANGED <<bvars, svars, rvars, lvars, stvars, cvars>>

\* resilience.draw_alive, line 140: replicas.get(svc, 1) on the table {n_raw: 2},
\* svc being the graph's service name.
LookupReplicas ==
    /\ n_pc = "targets"
    /\ n_replicas' = IF n_raw = n_service THEN 2 ELSE 1
    /\ n_pc' = "done"
    /\ UNCHANGED <<n_obs, n_raw, n_service, n_again, n_target>>
    /\ UNCHANGED <<bvars, svars, rvars, lvars, stvars, cvars>>

NNext == BuildName \/ NormAgain \/ ResolveTarget \/ LookupReplicas

SpecNorm == NInit /\ [][NNext]_vars

(***************************************************************************)
(* Service names: properties                                               *)
(***************************************************************************)

\* The raw name normalises, under the builder, to the graph's name of the service.
DenotesService == deps_to_graph_norm(n_raw) = n_service

\* C26: a raw name of the replica table, of a targets file or of an endpoint spec
\* whose Graph Builder normalisation is a graph service's name denotes that service
\* in the simulator: it resolves to the service as a target and its replica count
\* is the service's.
C26_OneServiceIdentity ==
    n_pc = "done" /\ DenotesService => n_target = "True" /\ n_replicas = 2

\* C26, what the simulator does instead: a target resolves iff the raw name and the
\* service name agree up to blanks at the ends, case and '_' / '-', and a replica
\* count is used iff the table's key is the service name letter for letter.
C26_SimulatorIdentity ==
    n_pc = "done" =>
        /\ n_target = "True" <=> resilience_norm(n_raw) = resilience_norm(n_service)
        /\ n_replicas = 2 <=> n_raw = n_service

\* C30: the Graph Builder's norm is idempotent: applied to a name of the built
\* graph's services list it returns that name.
C30_NormIsIdempotent ==
    n_pc \in {"again", "targets", "done"} => n_again = n_service

\* C30, the part that holds: a name of the services list is its own normal form
\* iff it neither ends in "service" nor has a blank at either end.
C30_IdempotentWithoutResidue ==
    n_pc \in {"again", "targets", "done"} =>
        (n_again = n_service <=>
            /\ ~endswith(n_service, <<"service">>)
            /\ strip(n_service) = n_service)

(***************************************************************************)
(* Statistics: the effect size                                             *)
(***************************************************************************)

CliffsDeltaReturned == st_pc = "returned" /\ st_fn = "cliffs_delta"

PairsWhere(x, y, Test(_, _)) ==
    Cardinality({p \in (DOMAIN x) \X (DOMAIN y) : Test(x[p[1]], y[p[2]])})

\* C27: for non-empty x (length n) and y (length m), cliffs_delta(x, y) is
\* (#{(a,b): a > b} - #{(a,b): a < b}) / (n*m) over all n*m pairs, lies in
\* [-1, 1], and cliffs_delta(x, y) = -cliffs_delta(y, x).
C27_CliffsDelta ==
    CliffsDeltaReturned /\ st_x # <<>> /\ st_y # <<>> =>
        /\ st_out.available
        /\ st_out.value[2] = Len(st_x) * Len(st_y)
        /\ st_out.value[1] = PairsWhere(st_x, st_y, LAMBDA a, b : a > b)
                               - PairsWhere(st_x, st_y, LAMBDA a, b : a < b)
        /\ -st_out.value[2] <= st_out.value[1]
        /\ st_out.value[1] <= st_out.value[2]
        /\ cliffs_delta(st_y, st_x).available
        /\ cliffs_delta(st_y, st_x).value = <<-st_out.value[1], st_out.value[2]>>

\* Two series of two windows with a pair a > b, a pair a < b and a tie.
C27_Witness ==
    /\ CliffsDeltaReturned
    /\ Len(st_x) = 2
    /\ Len(st_y) = 2
    /\ PairsWhere(st_x, st_y, LAMBDA a, b : a > b) > 0
    /\ PairsWhere(st_x, st_y, LAMBDA a, b : a < b) > 0
    /\ PairsWhere(st_x, st_y, LAMBDA a, b : a = b) > 0
    /\ st_out.available
    /\ st_out.value[1] # 0

(***************************************************************************)
(* Graph Builder: rewiring soundness                                       *)
(***************************************************************************)

\* A raw path from a to b whose interior nodes, if any, are all transparent.
RawPathThroughTransparent(a, b) == <<a, b>> \in b_edges \/ b \in ThroughTransparent(a)

\* C28: every edge (a, b) of the built graph corresponds to a path from a to b in
\* the raw normalised edge set whose interior nodes are all transparent.
C28_RewiringIsSound ==
    b_pc = "written" =>
        \A e \in b_graph.edges :
            /\ ValidIndex(e[1])
            /\ ValidIndex(e[2])
            /\ RawPathThroughTransparent(b_graph.services[e[1] + 1],
                                         b_graph.services[e[2] + 1])

\* A built edge that is no raw edge and whose raw paths all pass through at least
\* two transparent nodes.
C28_Witness ==
    /\ b_pc = "written"
    /\ \E a, b \in Names :
          /\ a # b
          /\ GraphHasEdge(a, b)
          /\ <<a, b>> \notin b_edges
          /\ ~\E t \in Names : <<a, t>> \in b_edges /\ <<t, b>> \in b_edges

(***************************************************************************)
(* Trial evaluation: the two modes compared                                *)
(***************************************************************************)

\* C29: a trial that succeeds under mode all-block also succeeds under mode async,
\* in simple mode and in endpoint-predicate mode with exclude_async set.
C29_AsyncTolerance ==
    (/\ Evaluated
     /\ ~EndpointMode \/ endpoint_spec.exclude_async
     /\ TrialUnder("all-block") = "True")
        => TrialUnder("async") = "True"

SynchronousEdges == graph.edges \ graph.async_edges

\* The nodes a simple-mode path must end at under mode all-block.
AllBlockGoals ==
    IF SimpleTargets # {} THEN SimpleTargets
    ELSE {i \in Idx(graph) : ~\E e \in graph.edges : e[1] = i}

\* Simple mode: some entry node has a path of alive nodes to an all-block goal that
\* uses no async-flagged edge.
SuccessAvoidsAsyncEdges ==
    \E e \in EntryServices : ReachSet(e, FailedIdx, SynchronousEdges) \cap AllBlockGoals # {}

\* Endpoint mode: every declared target that is reachable from the entry through
\* alive services is reachable so without async-flagged edges.
TargetsAvoidAsyncEdges ==
    \A i \in DOMAIN endpoint_spec.targets :
        TargetIdx(i) \in ReachSet(EntryIdx, FailedIdx, graph.edges)
            => TargetIdx(i) \in ReachSet(EntryIdx, FailedIdx, SynchronousEdges)

\* C29 (amended): a trial that succeeds under mode all-block also succeeds under
\* mode async when the success does not rest on an async-flagged edge: in simple
\* mode, when some entry node has a path of alive nodes without async-flagged edges
\* to a sink of the full graph (or to a supplied target); in endpoint-predicate
\* mode with exclude_async, when every declared target reachable from the entry
\* through alive services is reachable without async-flagged edges.
C29_AsyncToleranceAmended ==
    /\ (/\ Evaluated
        /\ ~EndpointMode
        /\ TrialUnder("all-block") = "True"
        /\ SuccessAvoidsAsyncEdges)
           => TrialUnder("async") = "True"
    /\ (/\ Evaluated
        /\ EndpointMode
        /\ endpoint_spec.exclude_async
        /\ TrialUnder("all-block") = "True"
        /\ TargetsAvoidAsyncEdges)
           => TrialUnder("async") = "True"

\* An endpoint trial with exclude_async on a graph with an async-flagged edge out
\* of the entry, a failed service, and a target reached without that edge.
C29_Witness ==
    /\ Evaluated
    /\ EndpointMode
    /\ endpoint_spec.exclude_async
    /\ mode = "async"
    /\ FailedIdx # {}
    /\ \E e \in graph.async_edges : e[1] = EntryIdx
    /\ RemainingTargets # {}
    /\ DroppedTargets # {}
    /\ TargetsAvoidAsyncEdges
    /\ TrialUnder("all-block") = "True"
    /\ trial_ok = "True"

\* The simple-mode case: an async-flagged edge is there, a service is dead, and
\* the trial succeeds under both modes.
C29_SimpleWitness ==
    /\ Evaluated
    /\ ~EndpointMode
    /\ mode = "async"
    /\ graph.async_edges # {}
    /\ FailedIdx # {}
    /\ SuccessAvoidsAsyncEdges
    /\ TrialUnder("all-block") = "True"
    /\ trial_ok = "True"

\* C29, a part that holds: in endpoint-predicate mode without exclude_async the
\* mode has no effect on the outcome.
C29_ModeIgnoredWithoutExclusion ==
    Evaluated /\ EndpointMode /\ ~endpoint_spec.exclude_async
        => TrialUnder("all-block") = TrialUnder("async")

====
